---- MODULE Spec2Model ----
(***************************************************************************)
(* The generation path of Eclo's main process (src/src/main/main.js):      *)
(* the 'generate-tts' IPC handler spawns the Python engine, demultiplexes  *)
(* its stderr into progress events and diagnostic text, accumulates its   *)
(* stdout, and settles the call when the process closes.                   *)
(*                                                                         *)
(* Text is modelled character by character: a JavaScript string is a      *)
(* sequence of one-character strings, so that trim, split, startsWith,     *)
(* includes, the progress-bar regular expression and JSON.parse are        *)
(* computed as the runtime computes them.                                  *)
(***************************************************************************)
EXTENDS Integers, Sequences, FiniteSets, TLC

(***************************************************************************)
(* JavaScript string primitives used by the handler.                       *)
(***************************************************************************)

\* The white space String.prototype.trim removes (the part of it that the
\* engine's streams can carry).
WhiteSpace == {" ", "\n", "\r", "\t"}

Digits == {"0", "1", "2", "3", "4", "5", "6", "7", "8", "9"}

DigitVal(c) ==
  CASE c = "0" -> 0 [] c = "1" -> 1 [] c = "2" -> 2 [] c = "3" -> 3
    [] c = "4" -> 4 [] c = "5" -> 5 [] c = "6" -> 6 [] c = "7" -> 7
    [] c = "8" -> 8 [] c = "9" -> 9

\* First index >= i of s that holds no white space (Len(s)+1 if none).
RECURSIVE SkipWs(_, _)
SkipWs(s, i) ==
  IF i <= Len(s) /\ s[i] \in WhiteSpace THEN SkipWs(s, i + 1) ELSE i

\* Last index <= i of s that holds no white space (0 if none).
RECURSIVE SkipWsBack(_, _)
SkipWsBack(s, i) ==
  IF i >= 1 /\ s[i] \in WhiteSpace THEN SkipWsBack(s, i - 1) ELSE i

\* String.prototype.trim
trim(s) ==
  LET a == SkipWs(s, 1)
      b == SkipWsBack(s, Len(s))
  IN  IF a > b THEN <<>> ELSE SubSeq(s, a, b)

\* Index of the first occurrence of character c in s at or after i, 0 if none.
IndexOf(s, c, i) ==
  IF \E j \in i..Len(s) : s[j] = c
  THEN CHOOSE j \in i..Len(s) : s[j] = c /\ \A m \in i..(j - 1) : s[m] # c
  ELSE 0

\* String.prototype.split with a one-character separator: "a\n" gives
\* <<"a", "">>, and the empty string gives <<"">>.
RECURSIVE split(_, _)
split(s, sep) ==
  LET i == IndexOf(s, sep, 1)
  IN  IF i = 0 THEN <<s>>
      ELSE <<SubSeq(s, 1, i - 1)>> \o split(SubSeq(s, i + 1, Len(s)), sep)

\* Array.prototype.join with a one-character separator.
RECURSIVE join(_, _)
join(ls, sep) ==
  IF ls = <<>> THEN <<>>
  ELSE IF Len(ls) = 1 THEN ls[1]
  ELSE ls[1] \o <<sep>> \o join(Tail(ls), sep)

\* String.prototype.startsWith
startsWith(s, p) == Len(s) >= Len(p) /\ SubSeq(s, 1, Len(p)) = p

\* String.prototype.includes
includes(s, p) ==
  \E i \in 1..(Len(s) - Len(p) + 1) : SubSeq(s, i, i + Len(p) - 1) = p

\* First index >= i of s that holds no decimal digit.
RECURSIVE SkipDigits(_, _)
SkipDigits(s, i) ==
  IF i <= Len(s) /\ s[i] \in Digits THEN SkipDigits(s, i + 1) ELSE i

\* s.match(/^\d+%\|/): one or more digits, a percent sign, a pipe, at the start.
matchProgressBar(s) ==
  LET j == SkipDigits(s, 1)
  IN  j > 1 /\ j + 1 <= Len(s) /\ s[j] = "%" /\ s[j + 1] = "|"

(***************************************************************************)
(* JSON.parse.  A JavaScript value is a record [k |-> kind, v |-> payload]: *)
(*   "undefined", "null"  (payload unused)                                  *)
(*   "bool"   payload a BOOLEAN                                             *)
(*   "num"    payload <<m, e>>, the number m / 10^e with no trailing zero   *)
(*            in the fraction                                               *)
(*   "str"    payload the sequence of characters                            *)
(*   "arr"    payload the sequence of element values                        *)
(*   "obj"    payload the sequence of <<key, value>> members, keys unique   *)
(* The grammar is JSON's without string escapes, signs and exponents: no    *)
(* text the modelled engine writes has a backslash, a sign before a digit   *)
(* or an exponent.                                                          *)
(***************************************************************************)
JV(kind, payload) == [k |-> kind, v |-> payload]

JUndefined == JV("undefined", 0)

JNull == JV("null", 0)

JBool(b) == JV("bool", b)

JStr(s) == JV("str", s)

JNum(m, e) == JV("num", <<m, e>>)

\* The character at index i of s, "" past the end.
At(s, i) == IF i >= 1 /\ i <= Len(s) THEN s[i] ELSE ""

ParseFail == [ok |-> FALSE, val |-> JUndefined, next |-> 0]

ParseOk(val, next) == [ok |-> TRUE, val |-> val, next |-> next]

\* A literal name (true, false, null) at index i.
ParseLiteral(s, i, word, val) ==
  IF i + Len(word) - 1 <= Len(s) /\ SubSeq(s, i, i + Len(word) - 1) = word
  THEN ParseOk(val, i + Len(word))
  ELSE ParseFail

\* A string at index i (s[i] is the opening quote): up to the next quote, with
\* no control character inside.
ParseString(s, i) ==
  LET j == IndexOf(s, "\"", i + 1)
  IN  IF j = 0 \/ \E m \in (i + 1)..(j - 1) : s[m] \in {"\n", "\r", "\t", "\\"}
      THEN ParseFail
      ELSE ParseOk(JStr(SubSeq(s, i + 1, j - 1)), j + 1)

\* The natural number written by the digits s[a..b], continuing from acc.
RECURSIVE DigitsToNat(_, _, _, _)
DigitsToNat(s, a, b, acc) ==
  IF a > b THEN acc ELSE DigitsToNat(s, a + 1, b, acc * 10 + DigitVal(s[a]))

\* m / 10^e with the trailing zeros of the fraction removed.
RECURSIVE NormNum(_, _)
NormNum(m, e) ==
  IF e > 0 /\ m % 10 = 0 THEN NormNum(m \div 10, e - 1) ELSE JNum(m, e)

\* A number at index i (s[i] is a digit): 0 or a digit string without leading
\* zero, then an optional fraction.
ParseNumber(s, i) ==
  LET intEnd == IF s[i] = "0" THEN i + 1 ELSE SkipDigits(s, i)
      hasFrac == At(s, intEnd) = "."
      fracEnd == SkipDigits(s, intEnd + 1)
      int == DigitsToNat(s, i, intEnd - 1, 0)
  IN  IF ~hasFrac THEN ParseOk(JNum(int, 0), intEnd)
      ELSE IF fracEnd = intEnd + 1 THEN ParseFail
      ELSE ParseOk(NormNum(DigitsToNat(s, intEnd + 1, fracEnd - 1, int),
                           fracEnd - intEnd - 1), fracEnd)

\* The members with key set to val: a repeated key keeps its place and takes
\* the later value.
PutMember(members, key, val) ==
  IF \E n \in 1..Len(members) : members[n][1] = key
  THEN [n \in 1..Len(members) |->
          IF members[n][1] = key THEN <<key, val>> ELSE members[n]]
  ELSE Append(members, <<key, val>>)

RECURSIVE ParseValue(_, _)
RECURSIVE ParseMembers(_, _, _)
RECURSIVE ParseElements(_, _, _)

\* The members of an object from index i (a key's opening quote is expected).
ParseMembers(s, i, acc) ==
  IF At(s, i) # "\"" THEN ParseFail
  ELSE
    LET key == ParseString(s, i)
        colon == SkipWs(s, key.next)
        val == ParseValue(s, SkipWs(s, colon + 1))
        after == SkipWs(s, val.next)
        members == PutMember(acc, key.val.v, val.val)
    IN  IF ~key.ok \/ At(s, colon) # ":" THEN ParseFail
        ELSE IF ~val.ok THEN ParseFail
        ELSE IF At(s, after) = "," THEN ParseMembers(s, SkipWs(s, after + 1), members)
        ELSE IF At(s, after) = "}" THEN ParseOk(JV("obj", members), after + 1)
        ELSE ParseFail

\* The elements of an array from index i (a value is expected).
ParseElements(s, i, acc) ==
  LET val == ParseValue(s, i)
      after == SkipWs(s, val.next)
      elems == Append(acc, val.val)
  IN  IF ~val.ok THEN ParseFail
      ELSE IF At(s, after) = "," THEN ParseElements(s, SkipWs(s, after + 1), elems)
      ELSE IF At(s, after) = "]" THEN ParseOk(JV("arr", elems), after + 1)
      ELSE ParseFail

\* A JSON value at index i (no white space before it).
ParseValue(s, i) ==
  LET c == At(s, i)
  IN  IF c = "{" THEN
        LET j == SkipWs(s, i + 1)
        IN  IF At(s, j) = "}" THEN ParseOk(JV("obj", <<>>), j + 1)
            ELSE ParseMembers(s, j, <<>>)
      ELSE IF c = "[" THEN
        LET j == SkipWs(s, i + 1)
        IN  IF At(s, j) = "]" THEN ParseOk(JV("arr", <<>>), j + 1)
            ELSE ParseElements(s, j, <<>>)
      ELSE IF c = "\"" THEN ParseString(s, i)
      ELSE IF c \in Digits THEN ParseNumber(s, i)
      ELSE IF c = "t" THEN ParseLiteral(s, i, <<"t", "r", "u", "e">>, JBool(TRUE))
      ELSE IF c = "f" THEN ParseLiteral(s, i, <<"f", "a", "l", "s", "e">>, JBool(FALSE))
      ELSE IF c = "n" THEN ParseLiteral(s, i, <<"n", "u", "l", "l">>, JNull)
      ELSE ParseFail

\* JSON.parse(s): one value between optional white space; anything else throws
\* a SyntaxError.
JSONparse(s) ==
  LET r == ParseValue(s, SkipWs(s, 1))
  IN  IF r.ok /\ SkipWs(s, r.next) > Len(s)
      THEN [threw |-> FALSE, val |-> r.val]
      ELSE [threw |-> TRUE, val |-> JUndefined]

\* Reading property `key` of a value (value.key): a TypeError on null and
\* undefined, the member's value on an object that has it, undefined otherwise.
GetProp(val, key) ==
  IF val.k \in {"null", "undefined"} THEN [threw |-> TRUE, val |-> JUndefined]
  ELSE IF val.k = "obj" /\ \E n \in 1..Len(val.v) : val.v[n][1] = key
  THEN [threw |-> FALSE,
        val |-> val.v[CHOOSE n \in 1..Len(val.v) : val.v[n][1] = key][2]]
  ELSE [threw |-> FALSE, val |-> JUndefined]

\* Whether the value has an own member `key`.
HasProp(val, key) ==
  val.k = "obj" /\ \E n \in 1..Len(val.v) : val.v[n][1] = key

\* JavaScript truthiness (ToBoolean).
Truthy(val) ==
  CASE val.k = "bool" -> val.v
    [] val.k = "num" -> val.v[1] # 0
    [] val.k = "str" -> val.v # <<>>
    [] val.k \in {"null", "undefined"} -> FALSE
    [] OTHER -> TRUE


\* String(value) for the values an Error message is built from.
DigitChar(n) ==
  CASE n = 0 -> "0" [] n = 1 -> "1" [] n = 2 -> "2" [] n = 3 -> "3"
    [] n = 4 -> "4" [] n = 5 -> "5" [] n = 6 -> "6" [] n = 7 -> "7"
    [] n = 8 -> "8" [] n = 9 -> "9"

RECURSIVE NatToChars(_)
NatToChars(n) ==
  IF n < 10 THEN <<DigitChar(n)>>
  ELSE NatToChars(n \div 10) \o <<DigitChar(n % 10)>>

RECURSIVE Pow10(_)
Pow10(e) == IF e = 0 THEN 1 ELSE 10 * Pow10(e - 1)

\* The e decimal digits of n, zero-padded on the left.
RECURSIVE FracChars(_, _)
FracChars(n, e) ==
  IF e = 0 THEN <<>> ELSE FracChars(n \div 10, e - 1) \o <<DigitChar(n % 10)>>

NumToString(m, e) ==
  IF e = 0 THEN NatToChars(m)
  ELSE NatToChars(m \div Pow10(e)) \o <<".">> \o FracChars(m % Pow10(e), e)

\* [object Object]
ObjectObject ==
  <<"[", "o", "b", "j", "e", "c", "t", " ", "O", "b", "j", "e", "c", "t",
    "]">>

RECURSIVE StringOf(_)
RECURSIVE JoinValues(_)
\* Array.prototype.join(","): null and undefined elements give the empty string.
JoinValues(vals) ==
  IF vals = <<>> THEN <<>>
  ELSE LET h == IF Head(vals).k \in {"null", "undefined"} THEN <<>>
                 ELSE StringOf(Head(vals))
       IN  IF Len(vals) = 1 THEN h ELSE h \o <<",">> \o JoinValues(Tail(vals))

StringOf(val) ==
  CASE val.k = "str" -> val.v
    [] val.k = "num" -> NumToString(val.v[1], val.v[2])
    [] val.k = "bool" -> IF val.v THEN <<"t", "r", "u", "e">>
                         ELSE <<"f", "a", "l", "s", "e">>
    [] val.k = "null" -> <<"n", "u", "l", "l">>
    [] val.k = "undefined" -> <<"u", "n", "d", "e", "f", "i", "n", "e", "d">>
    [] val.k = "arr" -> JoinValues(val.v)
    [] OTHER -> ObjectObject

(***************************************************************************)
(* Buffer.prototype.toString(): the UTF-8 decoding of one 'data' chunk.    *)
(* A byte below 0x80 is the one-character string of its ASCII character;   *)
(* the three bytes of U+2588 (full block, the progress bars' fill) are     *)
(* "E2", "96", "88".  A sequence cut by the chunk's boundary decodes to    *)
(* U+FFFD, one per maximal ill-formed part.                                *)
(***************************************************************************)
HighBytes == {"E2", "96", "88"}

FullBlock == "█"

Replacement == "�"

\* What the byte at index i of a chunk decodes to: itself (ASCII), the full
\* block (the lead byte of a whole sequence), U+FFFD (the lead byte of a cut
\* sequence, or a continuation byte with no lead byte before it), or nothing
\* (a continuation byte consumed with its lead byte), written "".
DecodeAt(bytes, i) ==
  LET b == bytes[i]
  IN  IF b \notin HighBytes THEN b
      ELSE IF b = "E2"
        THEN IF At(bytes, i + 1) = "96" /\ At(bytes, i + 2) = "88"
             THEN FullBlock ELSE Replacement
      ELSE IF b = "96"
        THEN IF At(bytes, i - 1) = "E2" THEN "" ELSE Replacement
      ELSE IF At(bytes, i - 2) = "E2" /\ At(bytes, i - 1) = "96"
        THEN "" ELSE Replacement

IsDecoded(c) == c # ""

toString(bytes) ==
  SelectSeq([i \in 1..Len(bytes) |-> DecodeAt(bytes, i)], IsDecoded)

(***************************************************************************)
(* String constants of the handler.                                        *)
(***************************************************************************)
\* type
KType ==
  <<"t", "y", "p", "e">>

\* data
KData ==
  <<"d", "a", "t", "a">>

\* progress
KProgress ==
  <<"p", "r", "o", "g", "r", "e", "s", "s">>

\* success
KSuccess ==
  <<"s", "u", "c", "c", "e", "s", "s">>

\* error
KError ==
  <<"e", "r", "r", "o", "r">>

\* outputPath
KOutputPath ==
  <<"o", "u", "t", "p", "u", "t", "P", "a", "t", "h">>

\* duration
KDuration ==
  <<"d", "u", "r", "a", "t", "i", "o", "n">>

\* TTS generation failed
GenericFailure ==
  <<"T", "T", "S", " ", "g", "e", "n", "e", "r", "a", "t", "i", "o", "n",
    " ", "f", "a", "i", "l", "e", "d">>

\* Fetching
Fetching ==
  <<"F", "e", "t", "c", "h", "i", "n", "g">>

\* Downloading
Downloading ==
  <<"D", "o", "w", "n", "l", "o", "a", "d", "i", "n", "g">>

\* tokenizer
Tokenizer ==
  <<"t", "o", "k", "e", "n", "i", "z", "e", "r">>

\* FutureWarning
FutureWarning ==
  <<"F", "u", "t", "u", "r", "e", "W", "a", "r", "n", "i", "n", "g">>

\* UserWarning
UserWarning ==
  <<"U", "s", "e", "r", "W", "a", "r", "n", "i", "n", "g">>

\* eclo_
EcloPrefix ==
  <<"e", "c", "l", "o", "_">>

\* /mock/music
MusicDir ==
  <<"/", "m", "o", "c", "k", "/", "m", "u", "s", "i", "c">>

\* wav
DefaultOutputFormat ==
  <<"w", "a", "v">>


(***************************************************************************)
(* What the engine process writes.  The streams are bytes; the ones below  *)
(* are the runs the handler is exercised on: the examples of the          *)
(* specification's section 8 and the edge cases of each branch.            *)
(***************************************************************************)
\* Fetching model...\n45%|████\nreal error: disk full\n
ErrExample ==
  <<"F", "e", "t", "c", "h", "i", "n", "g", " ", "m", "o", "d", "e", "l",
    ".", ".", ".", "\n", "4", "5", "%", "|", "E2", "96", "88", "E2", "96",
    "88", "E2", "96", "88", "E2", "96", "88", "\n", "r", "e", "a", "l",
    " ", "e", "r", "r", "o", "r", ":", " ", "d", "i", "s", "k", " ", "f",
    "u", "l", "l", "\n">>

\* {"type":"progress","data":{"percent":10}}\nsome plain text\n{"type":"progress","data":{"percent":50}}\n
ErrProgress ==
  <<"{", "\"", "t", "y", "p", "e", "\"", ":", "\"", "p", "r", "o", "g",
    "r", "e", "s", "s", "\"", ",", "\"", "d", "a", "t", "a", "\"", ":",
    "{", "\"", "p", "e", "r", "c", "e", "n", "t", "\"", ":", "1", "0", "}",
    "}", "\n", "s", "o", "m", "e", " ", "p", "l", "a", "i", "n", " ", "t",
    "e", "x", "t", "\n", "{", "\"", "t", "y", "p", "e", "\"", ":", "\"",
    "p", "r", "o", "g", "r", "e", "s", "s", "\"", ",", "\"", "d", "a", "t",
    "a", "\"", ":", "{", "\"", "p", "e", "r", "c", "e", "n", "t", "\"",
    ":", "5", "0", "}", "}", "\n">>

\* {"type":"log"}\nboom\n
ErrJsonLog ==
  <<"{", "\"", "t", "y", "p", "e", "\"", ":", "\"", "l", "o", "g", "\"",
    "}", "\n", "b", "o", "o", "m", "\n">>

\* null\n
ErrNull ==
  <<"n", "u", "l", "l", "\n">>

\*   7%|#\nx UserWarning\nDownloading\n
ErrNoise ==
  <<" ", " ", "7", "%", "|", "#", "\n", "x", " ", "U", "s", "e", "r", "W",
    "a", "r", "n", "i", "n", "g", "\n", "D", "o", "w", "n", "l", "o", "a",
    "d", "i", "n", "g", "\n">>

\* a tokenizer\nFutureWarning\n
ErrNoise2 ==
  <<"a", " ", "t", "o", "k", "e", "n", "i", "z", "e", "r", "\n", "F", "u",
    "t", "u", "r", "e", "W", "a", "r", "n", "i", "n", "g", "\n">>

\* boom
ErrNoNewline ==
  <<"b", "o", "o", "m">>

\* {"success":true,"outputPath":"/tmp/a.wav","duration":3.2}
OutSuccessFull ==
  <<"{", "\"", "s", "u", "c", "c", "e", "s", "s", "\"", ":", "t", "r", "u",
    "e", ",", "\"", "o", "u", "t", "p", "u", "t", "P", "a", "t", "h", "\"",
    ":", "\"", "/", "t", "m", "p", "/", "a", ".", "w", "a", "v", "\"", ",",
    "\"", "d", "u", "r", "a", "t", "i", "o", "n", "\"", ":", "3", ".", "2",
    "}">>

\* {"success":true}
OutSuccessBare ==
  <<"{", "\"", "s", "u", "c", "c", "e", "s", "s", "\"", ":", "t", "r", "u",
    "e", "}">>

\*  {"success":true,"duration":2}\n
OutSuccessPadded ==
  <<" ", "{", "\"", "s", "u", "c", "c", "e", "s", "s", "\"", ":", "t", "r",
    "u", "e", ",", "\"", "d", "u", "r", "a", "t", "i", "o", "n", "\"", ":",
    "2", "}", "\n">>

\* {"success":false,"error":"reference audio required"}
OutFailure ==
  <<"{", "\"", "s", "u", "c", "c", "e", "s", "s", "\"", ":", "f", "a", "l",
    "s", "e", ",", "\"", "e", "r", "r", "o", "r", "\"", ":", "\"", "r",
    "e", "f", "e", "r", "e", "n", "c", "e", " ", "a", "u", "d", "i", "o",
    " ", "r", "e", "q", "u", "i", "r", "e", "d", "\"", "}">>

\* {"success":false}
OutFailureNoError ==
  <<"{", "\"", "s", "u", "c", "c", "e", "s", "s", "\"", ":", "f", "a", "l",
    "s", "e", "}">>

\* {"success":false,"error":""}
OutFailureEmptyError ==
  <<"{", "\"", "s", "u", "c", "c", "e", "s", "s", "\"", ":", "f", "a", "l",
    "s", "e", ",", "\"", "e", "r", "r", "o", "r", "\"", ":", "\"", "\"", "}">>

\* {"success":false,"error":"Downloading failed"}
OutFailureNoise ==
  <<"{", "\"", "s", "u", "c", "c", "e", "s", "s", "\"", ":", "f", "a", "l",
    "s", "e", ",", "\"", "e", "r", "r", "o", "r", "\"", ":", "\"", "D",
    "o", "w", "n", "l", "o", "a", "d", "i", "n", "g", " ", "f", "a", "i",
    "l", "e", "d", "\"", "}">>

\* {}
OutEmptyObject ==
  <<"{", "}">>

\* null
OutNull ==
  <<"n", "u", "l", "l">>

\* Traceback
OutGarbage ==
  <<"T", "r", "a", "c", "e", "b", "a", "c", "k">>

ErrStreams ==
  {<<>>, ErrExample, ErrProgress, ErrJsonLog, ErrNull, ErrNoise, ErrNoise2, ErrNoNewline}

OutStreams ==
  {<<>>, OutSuccessFull,
   OutSuccessBare,
   OutSuccessPadded,
   OutFailure,
   OutFailureNoError,
   OutFailureEmptyError,
   OutFailureNoise,
   OutEmptyObject,
   OutNull,
   OutGarbage}

\* The runs of the engine: every stderr stream with an empty stdout, every
\* stdout with an empty stderr, and the short diagnostics with the stdouts
\* that carry no usable result.
\* A process that writes nothing.
NoOutput == [err |-> <<>>, out |-> <<>>]

EngineRuns ==
  {[err |-> e, out |-> <<>>] : e \in ErrStreams}
    \cup {[err |-> <<>>, out |-> o] : o \in OutStreams}
    \cup {[err |-> e, out |-> o] : e \in {ErrNoNewline, ErrNull},
                                   o \in {OutGarbage, OutNull, OutFailureNoise}}

\* The exit codes 'close' can carry: 0, a non-zero code, null (killed by a signal).
ExitCodes == {JNum(0, 0), JNum(1, 0), JNull}

\* The values Date.now() takes.
NowValues == {1704067200}

\* Most 'data' events one stream is delivered in.
MaxChunks == 2


(***************************************************************************)
(* The state.                                                              *)
(***************************************************************************)
(***************************************************************************)
(* The arguments of the engine invocation.                                 *)
(***************************************************************************)
\* store defaults: ttsModel
CosyVoiceId ==
  <<"m", "l", "x", "-", "c", "o", "m", "m", "u", "n", "i", "t", "y", "/",
    "F", "u", "n", "-", "C", "o", "s", "y", "V", "o", "i", "c", "e", "3",
    "-", "0", ".", "5", "B", "-", "2", "5", "1", "2", "-", "f", "p", "1",
    "6">>

\* scriptPath, below the resources or source directory
ScriptPath ==
  <<"p", "y", "t", "h", "o", "n", "/", "t", "t", "s", "_", "s", "e", "r",
    "v", "i", "c", "e", ".", "p", "y">>

FlagAction ==
  <<"-", "-", "a", "c", "t", "i", "o", "n">>

Generate ==
  <<"g", "e", "n", "e", "r", "a", "t", "e">>

FlagText ==
  <<"-", "-", "t", "e", "x", "t">>

FlagLanguage ==
  <<"-", "-", "l", "a", "n", "g", "u", "a", "g", "e">>

FlagModel ==
  <<"-", "-", "m", "o", "d", "e", "l">>

FlagOutput ==
  <<"-", "-", "o", "u", "t", "p", "u", "t">>

FlagSpeed ==
  <<"-", "-", "s", "p", "e", "e", "d">>

FlagRefAudio ==
  <<"-", "-", "r", "e", "f", "-", "a", "u", "d", "i", "o">>

FlagRefText ==
  <<"-", "-", "r", "e", "f", "-", "t", "e", "x", "t">>

FlagInstruct ==
  <<"-", "-", "i", "n", "s", "t", "r", "u", "c", "t">>

SampleText ==
  <<"h", "i">>

LangKo ==
  <<"k", "o">>

SampleVoicePath ==
  <<"/", "v", ".", "w", "a", "v">>

SampleRefText ==
  <<"r", "e", "f">>

SampleInstruct ==
  <<"c", "a", "l", "m">>

\* String(speed || 1.0)
SpeedArg(speed) == StringOf(IF Truthy(speed) THEN speed ELSE JNum(1, 0))

\* Mutant of PushIf: the field pushed whether set or not.
PushAlways(args, flag, val) == args \o <<JStr(flag), val>>

\* if (val) { args.push(flag, val); }
PushIf(args, flag, val) ==
  IF Truthy(val) THEN args \o <<JStr(flag), val>> ELSE args

\* const args = [...] and the three conditional pushes.
BuildArgs(options, modelId, file) ==
  LET args == <<JStr(ScriptPath),
                JStr(FlagAction), JStr(Generate),
                JStr(FlagText), options.text,
                JStr(FlagLanguage), options.language,
                JStr(FlagModel), JStr(modelId),
                JStr(FlagOutput), JStr(file),
                JStr(FlagSpeed), JStr(SpeedArg(options.speed))>>
  IN  PushIf(PushIf(PushIf(args, FlagRefAudio, options.voiceSamplePath),
                    FlagRefText, options.referenceText),
             FlagInstruct, options.instructText)

\* The options of a request: what the renderer's generateTTS passes, and the
\* unset forms of each optional field (undefined, null, the empty string).
MakeOptions(text, language, voice, refText, instruct, speed) ==
  [text |-> text, language |-> language, voiceSamplePath |-> voice,
   referenceText |-> refText, instructText |-> instruct, speed |-> speed]

\* A request with every field set.
TypicalOptions ==
  MakeOptions(JStr(SampleText), JStr(LangKo), JStr(SampleVoicePath),
              JStr(SampleRefText), JStr(SampleInstruct), JNum(15, 1))

RequestOptions ==
  {MakeOptions(JStr(SampleText), JStr(LangKo), voice, refText, instruct, speed) :
     voice \in {JUndefined, JStr(<<>>), JStr(SampleVoicePath)},
     refText \in {JNull, JStr(<<>>), JStr(SampleRefText)},
     instruct \in {JNull, JStr(<<>>), JStr(SampleInstruct)},
     speed \in {JUndefined, JNum(0, 0), JNum(1, 0), JNum(15, 1)}}

\* How spawn(pythonPath, args) can end.  ENOENT (no such executable) is
\* reported by an 'error' event of the child; E2BIG (argument list too long)
\* is thrown by spawn itself.
SpawnErrorsEmitted == {"ENOENT"}

SpawnErrorsThrown == {"E2BIG"}

\* The message of the error spawn throws: `spawn E2BIG`.
SpawnMessage(errno) ==
  <<"s", "p", "a", "w", "n", " ">> \o
  (IF errno = "E2BIG" THEN <<"E", "2", "B", "I", "G">>
   ELSE <<"E", "N", "O", "E", "N", "T">>)

\* The invocations explored: every engine run with a typical request, every
\* spawn failure, and every request with an engine that writes nothing.
Invocations ==
  {[run |-> r, spawned |-> "ok", options |-> TypicalOptions] : r \in EngineRuns}
    \cup {[run |-> NoOutput, spawned |-> e, options |-> TypicalOptions] :
            e \in SpawnErrorsEmitted \cup SpawnErrorsThrown}
    \cup {[run |-> NoOutput, spawned |-> "ok", options |-> o] :
            o \in RequestOptions}

VARIABLES
  mainWindow,    \* whether the BrowserWindow has been created
  store,         \* the settings the handler reads: outputFormat, outputPath
  proc,          \* the engine process: "none", "running", "exited", "closed"
  engine,        \* what the process writes: [err |-> bytes, out |-> bytes]
  errPos,        \* bytes of engine.err already delivered in 'data' events
  outPos,        \* bytes of engine.out already delivered in 'data' events
  errChunks,     \* 'data' events delivered on stderr
  outChunks,     \* 'data' events delivered on stdout
  exitCode,      \* the code of the 'exit' and 'close' events
  outputFile,    \* const outputFile of the handler
  stdout,        \* let stdout of the handler
  stderr,        \* let stderr of the handler
  progressSent,  \* the payloads sent on 'tts-progress', in order
  promise,       \* the promise returned to ipcRenderer.invoke
  settleCalls,   \* every resolve(...) and reject(...) call made, in order
  closeHandled,  \* times the terminal-event listener has run
  uncaught,      \* exceptions thrown out of an event of the main process
  options,       \* the options the handler was invoked with
  spawnArgs,     \* the args array passed to spawn
  clock,         \* the latest instant Date.now() gave the main process
  reply,         \* the latest store invocation: [op, arg, value returned]
  adds,          \* add-history-item invocations handled so far
  handled,       \* store invocations handled so far
  ttsText,       \* the value of #tts-text
  ttsLanguage,   \* the value of #tts-language
  selectedVoice, \* this.selectedVoice
  settings,      \* this.settings
  currentModelCapabilities,  \* this.currentModelCapabilities
  generateBtnDisabled,       \* the disabled property of #generate-btn
  alerts,        \* the messages alert() has shown, in order
  currentAudioPath,          \* this.currentAudioPath
  progressShown, \* #progress-container is not hidden
  progressListeners,         \* listeners registered on 'tts-progress'
  progressCleanup,           \* this.progressCleanup is set
  hideTimers,    \* hideProgress timeouts not yet run
  generations,   \* the generateTTS invocations, in order
  dom            \* the properties of the page's elements the renderer sets

vars ==
  <<mainWindow, store, proc, engine, errPos, outPos, errChunks, outChunks,
    exitCode, outputFile, stdout, stderr, progressSent, promise, settleCalls,
    closeHandled, uncaught, options, spawnArgs, clock, reply, adds,
    handled, ttsText, ttsLanguage, selectedVoice, settings,
    currentModelCapabilities, generateBtnDisabled, alerts, currentAudioPath,
    progressShown, progressListeners, progressCleanup, hideTimers,
    generations, dom>>

\* What the history handlers keep besides the store.
historyVars == <<clock, reply, adds, handled>>

\* The state of the renderer.
rendererVars ==
  <<ttsText, ttsLanguage, selectedVoice, settings, currentModelCapabilities,
    generateBtnDisabled, alerts, currentAudioPath, progressShown,
    progressListeners, progressCleanup, hideTimers, generations, dom>>

\* The state of a generate-tts invocation.
engineVars ==
  <<mainWindow, proc, engine, errPos, outPos, errChunks, outChunks, exitCode,
    outputFile, stdout, stderr, progressSent, promise, settleCalls,
    closeHandled, uncaught, options, spawnArgs>>

Pending == [state |-> "pending", value |-> JUndefined]

(***************************************************************************)
(* ipcMain.handle('generate-tts'): the output file and the listeners.      *)
(***************************************************************************)

\* path.join(dir, name) for an absolute directory and a file name.
pathJoin(dir, name) ==
  IF dir # <<>> /\ dir[Len(dir)] = "/" THEN dir \o name
  ELSE dir \o <<"/">> \o name

\* path.join(outputPath, `eclo_${Date.now()}.${outputFormat}`)
OutputFileOf(outputPath, now, outputFormat) ==
  pathJoin(outputPath, EcloPrefix \o NatToChars(now) \o <<".">> \o outputFormat)

\* new Error(message)
ErrorOf(message) == JV("error", message)

Resolve(value) == [call |-> "resolve", value |-> value]

Reject(value) == [call |-> "reject", value |-> value]

\* The promise after the given resolve/reject calls: the first call on a
\* pending promise settles it, later ones change nothing.
RECURSIVE Settle(_, _)
Settle(p, calls) ==
  IF calls = <<>> THEN p
  ELSE Settle(IF p.state # "pending" THEN p
              ELSE [state |-> IF Head(calls).call = "resolve" THEN "fulfilled"
                              ELSE "rejected",
                    value |-> Head(calls).value],
              Tail(calls))

\* One pass of the stderr listener's loop body for `line`: st is
\* [stderr |-> the diagnostic buffer, sent |-> the progress payloads sent].
StderrLine(line, st, window) ==
  IF trim(line) = <<>> THEN st
  ELSE
    LET parsed == JSONparse(line)
        type == GetProp(parsed.val, KType)
    IN  IF parsed.threw \/ type.threw
        THEN [st EXCEPT !.stderr = @ \o line \o <<"\n">>]
        ELSE IF type.val = JStr(KProgress) /\ window
        THEN [st EXCEPT !.sent = Append(@, GetProp(parsed.val, KData).val)]
        ELSE st

RECURSIVE StderrLoop(_, _, _)
StderrLoop(lines, st, window) ==
  IF lines = <<>> THEN st
  ELSE StderrLoop(Tail(lines), StderrLine(Head(lines), st, window), window)

\* ttsProcess.stderr.on('data', ...)
onStderrData(data, st, window) ==
  StderrLoop(split(toString(data), "\n"), st, window)

\* ttsProcess.stdout.on('data', ...)
onStdoutData(data, buf) == buf \o toString(data)

\* Mutant of KeepErrorLine: the progress-bar pattern tested on the raw line
\* instead of the trimmed one.
KeepErrorLineRawBar(line) ==
  LET trimmed == trim(line)
  IN  /\ trimmed # <<>>
      /\ ~startsWith(trimmed, Fetching)
      /\ ~startsWith(trimmed, Downloading)
      /\ ~includes(trimmed, Tokenizer)
      /\ ~includes(trimmed, FutureWarning)
      /\ ~includes(trimmed, UserWarning)
      /\ ~matchProgressBar(line)

\* The predicate of stderr.split('\n').filter(...)
KeepErrorLine(line) ==
  LET trimmed == trim(line)
  IN  /\ trimmed # <<>>
      /\ ~startsWith(trimmed, Fetching)
      /\ ~startsWith(trimmed, Downloading)
      /\ ~includes(trimmed, Tokenizer)
      /\ ~includes(trimmed, FutureWarning)
      /\ ~includes(trimmed, UserWarning)
      /\ ~matchProgressBar(trimmed)

\* const errorLines = stderr.split('\n').filter(...).join('\n').trim()
ErrorLines(buf) == trim(join(SelectSeq(split(buf, "\n"), KeepErrorLine), "\n"))

\* Mutant of FallbackResult: the output path left out of the literal.
FallbackResultNoPath(file) == JV("obj", <<<<KSuccess, JBool(TRUE)>>>>)

\* The object literal { success: true, outputPath: outputFile }
FallbackResult(file) ==
  JV("obj", <<<<KSuccess, JBool(TRUE)>>, <<KOutputPath, JStr(file)>>>>)

\* Mutant of MessageOr: the fallback message forgotten.
MessageOrNoDefault(val) == StringOf(val)

\* x || 'TTS generation failed' as the message of new Error(...)
MessageOr(val) == IF Truthy(val) THEN StringOf(val) ELSE GenericFailure

\* Mutant of onClose: the `else` of `if (result.success)` lost, so that a
\* successful result is resolved and then also rejected.
onCloseNoElse(code, out, err, file) ==
  LET result == JSONparse(trim(out))
      success == GetProp(result.val, KSuccess)
  IN  IF ~result.threw /\ ~success.threw
      THEN (IF Truthy(success.val) THEN <<Resolve(result.val)>> ELSE <<>>)
             \o <<Reject(ErrorOf(MessageOr(GetProp(result.val, KError).val)))>>
      ELSE IF code = JNum(0, 0)
           THEN <<Resolve(FallbackResult(file))>>
           ELSE <<Reject(ErrorOf(MessageOr(JStr(ErrorLines(err)))))>>

\* Mutant of onClose: a parsed value without a success member taken as no
\* result, so that the exit code decides.
onCloseFlagRequired(code, out, err, file) ==
  LET result == JSONparse(trim(out))
      success == GetProp(result.val, KSuccess)
  IN  IF ~result.threw /\ ~success.threw /\ HasProp(result.val, KSuccess)
      THEN IF Truthy(success.val)
           THEN <<Resolve(result.val)>>
           ELSE <<Reject(ErrorOf(MessageOr(GetProp(result.val, KError).val)))>>
      ELSE IF code = JNum(0, 0)
           THEN <<Resolve(FallbackResult(file))>>
           ELSE <<Reject(ErrorOf(MessageOr(JStr(ErrorLines(err)))))>>

\* Mutant of onClose: the exit code consulted before the JSON result.
onCloseExitCodeFirst(code, out, err, file) ==
  LET result == JSONparse(trim(out))
      success == GetProp(result.val, KSuccess)
  IN  IF code # JNum(0, 0)
      THEN <<Reject(ErrorOf(MessageOr(JStr(ErrorLines(err)))))>>
      ELSE IF ~result.threw /\ ~success.threw /\ Truthy(success.val)
      THEN <<Resolve(result.val)>>
      ELSE <<Resolve(FallbackResult(file))>>

\* ttsProcess.on('close', (code) => ...): the resolve/reject calls it makes.
onClose(code, out, err, file) ==
  LET result == JSONparse(trim(out))
      success == GetProp(result.val, KSuccess)
  IN  IF ~result.threw /\ ~success.threw
      THEN IF Truthy(success.val)
           THEN <<Resolve(result.val)>>
           ELSE <<Reject(ErrorOf(MessageOr(GetProp(result.val, KError).val)))>>
      ELSE IF code = JNum(0, 0)
           THEN <<Resolve(FallbackResult(file))>>
           ELSE <<Reject(ErrorOf(MessageOr(JStr(ErrorLines(err)))))>>

\* Mutant of TerminalEvent: the listener registered on 'exit'.
TerminalEventExit == "exit"

\* The event of the child process the settling listener is registered on.
TerminalEvent == "close"

(***************************************************************************)
(* The store and the history handlers.                                     *)
(***************************************************************************)
\* Math.random().toString(36).substr(2, 9): two of its values
SuffixA ==
  <<"k", "3", "x", "9", "q", "2", "m", "1", "a">>

SuffixB ==
  <<"0", "z", "8", "y", "7", "w", "6", "v", "5">>

VoiceSora ==
  <<"S", "o", "r", "a">>

VoiceKoreanFemale ==
  <<"k", "o", "r", "e", "a", "n", "_", "f", "e", "m", "a", "l", "e">>

SampleOutputPath ==
  <<"/", "t", "m", "p", "/", "a", ".", "w", "a", "v">>

TermsVersion ==
  <<"1", ".", "0">>

RandomSuffixes == {SuffixA, SuffixB}

\* The instant Date.now() gives at start-up.
Epoch == 1704067200

DefaultSampleRate == 22050

\* new Store({ defaults: ... })
DefaultStore ==
  [ttsModel |-> CosyVoiceId, outputFormat |-> DefaultOutputFormat,
   sampleRate |-> DefaultSampleRate, language |-> LangKo,
   uiLanguage |-> LangKo, outputPath |-> MusicDir,
   watermarkEnabled |-> TRUE, termsAccepted |-> FALSE,
   termsVersion |-> JNull, consentRecords |-> <<>>, historyItems |-> <<>>]

\* if (history.length > 100)
HistoryCap == 100

\* `${Date.now()}-${Math.random().toString(36).substr(2, 9)}`
IdOf(now, rnd) == NatToChars(now) \o <<"-">> \o rnd

\* { ...item, id: ..., timestamp: new Date().toISOString() }: the timestamp
\* is kept as the instant it prints.
NewItem(item, now, rnd) ==
  [f \in DOMAIN item \cup {"id", "timestamp"} |->
     CASE f = "id" -> IdOf(now, rnd)
       [] f = "timestamp" -> now
       [] OTHER -> item[f]]

\* Mutant of Evict: the newest entry dropped instead of the oldest.
EvictNewest(history) ==
  IF Len(history) > HistoryCap THEN Tail(history) ELSE history

\* if (history.length > 100) { history.pop(); }
Evict(history) ==
  IF Len(history) > HistoryCap THEN SubSeq(history, 1, Len(history) - 1)
  ELSE history

\* Mutant of Unshift: the new entry pushed at the end.
Push(history, newItem) == Append(history, newItem)

\* history.unshift(newItem)
Unshift(history, newItem) == <<newItem>> \o history

\* Mutant of addHistoryItem: the list is built on the history read at
\* start-up, not on the one the invocation before left.
addHistoryItemStale(st, item, now, rnd) ==
  LET newItem == NewItem(item, now, rnd)
      history == Evict(Unshift(DefaultStore.historyItems, newItem))
  IN  [store |-> [st EXCEPT !.historyItems = history],
       ret |-> JV("entry", newItem)]

\* ipcMain.handle('add-history-item'): the store after it and what it returns.
addHistoryItem(st, item, now, rnd) ==
  LET newItem == NewItem(item, now, rnd)
      history == Evict(Unshift(st.historyItems, newItem))
  IN  [store |-> [st EXCEPT !.historyItems = history],
       ret |-> JV("entry", newItem)]

\* ipcMain.handle('get-history')
getHistory(st) == [store |-> st, ret |-> JV("list", st.historyItems)]

\* Mutant of FilterOut: history.splice(history.findIndex(...), 1), which
\* takes the last entry out when no entry has the id.
FilterOutSplice(history, id) ==
  LET found == {i \in 1..Len(history) : history[i].id = id}
      at == IF found = {} THEN Len(history)
            ELSE CHOOSE i \in found : \A j \in found : i <= j
  IN  [i \in 1..(IF history = <<>> THEN 0 ELSE Len(history) - 1) |->
         IF i < at THEN history[i] ELSE history[i + 1]]

\* history.filter(item => item.id !== id)
FilterOut(history, id) == SelectSeq(history, LAMBDA item : item.id # id)

\* ipcMain.handle('delete-history-item')
deleteHistoryItem(st, id) ==
  [store |-> [st EXCEPT !.historyItems = FilterOut(@, id)],
   ret |-> JBool(TRUE)]

\* Mutant of clearHistory: the whole store reset to its defaults.
clearHistoryResetStore(st) == [store |-> DefaultStore, ret |-> JBool(TRUE)]

\* ipcMain.handle('clear-history')
clearHistory(st) ==
  [store |-> [st EXCEPT !.historyItems = <<>>], ret |-> JBool(TRUE)]

\* ipcMain.handle('record-consent')
recordConsent(st, consentData, now) ==
  LET record == [f \in DOMAIN consentData \cup {"timestamp", "version"} |->
                   CASE f = "timestamp" -> now
                     [] f = "version" -> TermsVersion
                     [] OTHER -> consentData[f]]
  IN  [store |-> [st EXCEPT !.consentRecords = Append(@, record),
                            !.termsAccepted = TRUE,
                            !.termsVersion = JStr(TermsVersion)],
       ret |-> JBool(TRUE)]

\* ipcMain.handle('set-setting')
setSetting(st, key, value) ==
  [store |-> [st EXCEPT ![key] = value], ret |-> JBool(TRUE)]

\* The item addToHistory passes for the n-th generation: its audio lasts n
\* seconds, which tells the entries apart.
ItemOf(n) ==
  [text |-> SampleText, language |-> LangKo, voiceName |-> VoiceSora,
   voiceId |-> VoiceKoreanFemale, modelId |-> CosyVoiceId,
   duration |-> JNum(n, 0), outputPath |-> SampleOutputPath]

\* What the consent modal's Continue button records.
ConsentData ==
  [termsAgreed |-> TRUE, voiceRightsAgreed |-> TRUE, noIllegalAgreed |-> TRUE]

\* The entries HistoryCap - 1 generations leave, one per millisecond, in the
\* order they were made.
EarlierItems ==
  [i \in 1..(HistoryCap - 1) |-> NewItem(ItemOf(i), Epoch + i, SuffixA)]

\* The sequence in reverse order.
Reverse(seq) == [i \in 1..Len(seq) |-> seq[Len(seq) + 1 - i]]

\* An id no entry has.
MissingId == IdOf(0, SuffixA)

\* The ids the renderer's delete buttons are tried with: the newest and the
\* oldest entry's, and one that is not in the list.
DeleteIds(history) ==
  {MissingId} \cup
  (IF history = <<>> THEN {} ELSE {history[1].id, history[Len(history)].id})

\* Most history and store invocations in one behaviour.
MaxCalls == 4

NoReply == [op |-> "none", arg |-> JUndefined, value |-> JUndefined]

(***************************************************************************)
(* The renderer: EcloApp and the form it reads.                            *)
(***************************************************************************)
OuteId ==
  <<"m", "l", "x", "-", "c", "o", "m", "m", "u", "n", "i", "t", "y", "/",
    "O", "u", "t", "e", "T", "T", "S", "-", "0", ".", "2", "-", "5", "0",
    "0", "M", "-", "M", "L", "X">>

KokoroId ==
  <<"m", "l", "x", "-", "c", "o", "m", "m", "u", "n", "i", "t", "y", "/",
    "K", "o", "k", "o", "r", "o", "-", "8", "2", "M", "-", "M", "L", "X">>

CustomId ==
  <<"c", "u", "s", "t", "o", "m">>

LangZh ==
  <<"z", "h">>

LangEn ==
  <<"e", "n">>

LangJa ==
  <<"j", "a">>

LangDe ==
  <<"d", "e">>

LangEs ==
  <<"e", "s">>

LangFr ==
  <<"f", "r">>

LangIt ==
  <<"i", "t">>

LangRu ==
  <<"r", "u">>

VoiceYuki ==
  <<"Y", "u", "k", "i">>

VoiceJapaneseFemale ==
  <<"j", "a", "p", "a", "n", "e", "s", "e", "_", "f", "e", "m", "a", "l", "e">>

VoiceMei ==
  <<"M", "e", "i">>

VoiceChineseFemale ==
  <<"c", "h", "i", "n", "e", "s", "e", "_", "f", "e", "m", "a", "l", "e">>

VoiceEmma ==
  <<"E", "m", "m", "a">>

VoiceEnglishFemale ==
  <<"e", "n", "g", "l", "i", "s", "h", "_", "f", "e", "m", "a", "l", "e">>

EmmaRefText ==
  <<"H", "e", "l", "l", "o", ",", " ", "n", "i", "c", "e", " ", "t", "o",
    " ", "m", "e", "e", "t", " ", "y", "o", "u", ".">>

\* voicesDir, below the resources or source directory
VoicesDir ==
  <<"a", "s", "s", "e", "t", "s", "/", "v", "o", "i", "c", "e", "s">>

WavSuffix ==
  <<".", "w", "a", "v">>

VoicesPrefix ==
  <<"v", "o", "i", "c", "e", "s", "/">>

CustomName ==
  <<"C", "u", "s", "t", "o", "m">>

AlertEnterText ==
  <<"P", "l", "e", "a", "s", "e", " ", "e", "n", "t", "e", "r", " ", "t",
    "e", "x", "t", " ", "t", "o", " ", "c", "o", "n", "v", "e", "r", "t">>

AlertSelectVoice ==
  <<"P", "l", "e", "a", "s", "e", " ", "s", "e", "l", "e", "c", "t", " ",
    "a", " ", "v", "o", "i", "c", "e">>

AlertErrorPrefix ==
  <<"E", "r", "r", "o", "r", ":", " ">>

AlertFailedPrefix ==
  <<"G", "e", "n", "e", "r", "a", "t", "i", "o", "n", " ", "f", "a", "i",
    "l", "e", "d", ":", " ">>

\* the message of the Error ipcRenderer.invoke rejects with
InvokeErrorPrefix ==
  <<"E", "r", "r", "o", "r", " ", "i", "n", "v", "o", "k", "i", "n", "g",
    " ", "r", "e", "m", "o", "t", "e", " ", "m", "e", "t", "h", "o", "d",
    " ", "'", "g", "e", "n", "e", "r", "a", "t", "e", "-", "t", "t", "s",
    "'", ":", " ", "E", "r", "r", "o", "r", ":", " ">>

Ellipsis ==
  <<".", ".", ".">>

Capabilities(cloning, presets, speed, style, language, refText) ==
  [voiceCloning |-> cloning, presetVoices |-> presets, speedControl |-> speed,
   styleInstruction |-> style, languageSelection |-> language,
   referenceText |-> refText]

\* The capabilities taken for a model that is not in the list.
FullCapabilities == Capabilities(TRUE, TRUE, TRUE, TRUE, TRUE, TRUE)

\* ipcMain.handle('get-available-models')
AvailableModels ==
  <<[id |-> CosyVoiceId,
     languages |-> <<LangZh, LangEn, LangJa, LangKo, LangDe, LangEs, LangFr,
                     LangIt, LangRu>>,
     capabilities |-> Capabilities(TRUE, TRUE, TRUE, TRUE, TRUE, TRUE)],
    [id |-> OuteId,
     languages |-> <<LangEn, LangZh, LangJa, LangKo>>,
     capabilities |-> Capabilities(TRUE, TRUE, FALSE, FALSE, TRUE, TRUE)],
    [id |-> KokoroId,
     languages |-> <<LangEn, LangJa>>,
     capabilities |-> Capabilities(FALSE, FALSE, TRUE, FALSE, TRUE, FALSE)],
    [id |-> CustomId,
     languages |-> <<>>,
     capabilities |-> Capabilities(TRUE, TRUE, TRUE, TRUE, TRUE, TRUE)]>>

\* this.availableModels.find(m => m.id === modelId), as a list of at most one.
FindModel(modelId) ==
  LET found == SelectSeq(AvailableModels, LAMBDA m : m.id = modelId)
  IN  IF found = <<>> THEN <<>> ELSE <<Head(found)>>

\* Mutant of CapabilitiesOf: no capability for a model that is not in the
\* list.
CapabilitiesOfListedOnly(modelId) ==
  IF FindModel(modelId) = <<>>
  THEN Capabilities(FALSE, FALSE, FALSE, FALSE, FALSE, FALSE)
  ELSE FindModel(modelId)[1].capabilities

\* currentModel?.capabilities || { ...all true }
CapabilitiesOf(modelId) ==
  IF FindModel(modelId) = <<>> THEN FullCapabilities
  ELSE FindModel(modelId)[1].capabilities

\* currentModel?.languages || []
LanguagesOf(modelId) ==
  IF FindModel(modelId) = <<>> THEN <<>> ELSE FindModel(modelId)[1].languages

\* The values of the options of #tts-language, in the order of the page.
LanguageOptions == <<LangKo, LangEn, LangJa, LangZh>>

Includes(seq, x) == \E i \in 1..Len(seq) : seq[i] = x

\* Mutant of LanguageAfter: the value left as it is when the model does not
\* support it.
LanguageAfterKeep(modelId, value) == value

\* The value of #tts-language after the options the model does not support
\* have been disabled: the first supported option when the current one is
\* not supported.
LanguageAfter(modelId, value) ==
  LET supported == LanguagesOf(modelId)
      enabled == SelectSeq(LanguageOptions, LAMBDA l : Includes(supported, l))
  IN  IF supported = <<>> \/ Includes(supported, value) \/ enabled = <<>>
      THEN value
      ELSE Head(enabled)

\* caps.voiceCloning || caps.presetVoices
RequiresVoice(caps) == caps.voiceCloning \/ caps.presetVoices

\* this.selectedVoice after updateUIBasedOnCapabilities
VoiceAfter(caps, voice) == IF RequiresVoice(caps) THEN voice ELSE JNull

\* Mutant of updateGenerateButtonState: a voice asked for whatever the
\* capabilities are.
updateGenerateButtonStateVoice(caps, voice, text) ==
  ~(voice # JNull /\ Len(trim(text)) > 0)

\* updateGenerateButtonState(): the disabled property of #generate-btn
updateGenerateButtonState(caps, voice, text) ==
  LET hasVoice == voice # JNull
      hasText == Len(trim(text)) > 0
  IN  IF ~RequiresVoice(caps) THEN ~hasText ELSE ~(hasVoice /\ hasText)

\* this.selectedVoice of selectPresetVoice(voice)
PresetVoice(voice) ==
  JV("voice", [type |-> "preset", id |-> voice.id, name |-> voice.name,
               path |-> VoicesPrefix \o voice.id \o WavSuffix,
               langCode |-> voice.langCode])

\* filePath.split('/').pop()
FileName(filePath) == LET parts == split(filePath, "/") IN parts[Len(parts)]

\* this.selectedVoice of selectCustomVoice(filePath)
CustomVoice(filePath) ==
  JV("voice", [type |-> "custom", id |-> CustomId, name |-> FileName(filePath),
               path |-> filePath])

\* this.presetVoices: the voice the model selects
PresetVoices ==
  <<[id |-> VoiceEnglishFemale, name |-> VoiceEmma, langCode |-> LangEn,
     refText |-> EmmaRefText]>>

\* getPresetReferenceText(voiceId)
getPresetReferenceText(voiceId) ==
  LET found == SelectSeq(PresetVoices, LAMBDA v : v.id = voiceId)
  IN  IF found = <<>> THEN JNull ELSE JStr(Head(found).refText)

\* ipcMain.handle('get-voice-sample-path')
getVoiceSamplePath(voiceId) == pathJoin(VoicesDir, voiceId \o WavSuffix)

\* x || null for a string x
OrNull(chars) == IF chars = <<>> THEN JNull ELSE JStr(chars)

\* The fields of the form the model leaves as they are: #custom-ref-text and
\* #tts-style empty, #tts-speed at 1.
FormRefText == <<>>

FormStyle == <<>>

FormSpeed == JNum(1, 0)

\* Mutant of Validate: the text not checked.
ValidateVoiceOnly(text, voice) ==
  IF voice = JNull THEN AlertSelectVoice ELSE <<>>

\* The checks generateTTS starts with: the alert it ends with, <<>> when it
\* goes on.
Validate(text, voice) ==
  IF trim(text) = <<>> THEN AlertEnterText
  ELSE IF voice = JNull THEN AlertSelectVoice
  ELSE <<>>

\* The options generateTTS invokes 'generate-tts' with.
RendererOptions(text, language, voice, style, speed) ==
  MakeOptions(JStr(trim(text)), JStr(language),
              IF voice.v.type = "preset"
              THEN JStr(getVoiceSamplePath(voice.v.id))
              ELSE JStr(voice.v.path),
              IF voice.v.type = "preset"
              THEN getPresetReferenceText(voice.v.id)
              ELSE OrNull(trim(FormRefText)),
              OrNull(trim(style)),
              speed)

\* text.substring(0, 100) + (text.length > 100 ? '...' : '')
PreviewLength == 100

TextPreview(text) ==
  IF Len(text) > PreviewLength THEN SubSeq(text, 1, PreviewLength) \o Ellipsis
  ELSE text

\* x || y
Or(x, y) == IF Truthy(x) THEN x ELSE y

\* The item generateTTS passes to addToHistory after `result`.
HistoryItemOf(text, language, voice, modelId, result) ==
  [text |-> TextPreview(text), language |-> language,
   voiceName |-> IF voice = JNull THEN CustomName ELSE voice.v.name,
   voiceId |-> IF voice = JNull THEN CustomId ELSE voice.v.id,
   modelId |-> modelId,
   duration |-> Or(GetProp(result, KDuration).val, JNum(0, 0)),
   outputPath |-> GetProp(result, KOutputPath).val]

\* The engine runs a generation ends with: a JSON success, a JSON failure
\* with exit code 0 (which the close listener rejects with the engine's
\* message), and a failure reported on stderr.
AppRuns ==
  {[run |-> [err |-> <<>>, out |-> OutSuccessFull], code |-> JNum(0, 0)],
   [run |-> [err |-> <<>>, out |-> OutFailure], code |-> JNum(0, 0)],
   [run |-> [err |-> ErrNoNewline, out |-> <<>>], code |-> JNum(1, 0)]}

\* Mutant of Succeeded: the history is saved whatever the invocation gave,
\* as if addToHistory stood after the try block.
SucceededAlways(result) == TRUE

\* if (result.success), reached when the invocation resolved.
Succeeded(result) ==
  /\ result.state = "fulfilled"
  /\ Truthy(GetProp(result.value, KSuccess).val)

\* ENOSPC
HistoryWriteError ==
  <<"E", "N", "O", "S", "P", "C">>

\* Mutant of addToHistory: no catch, the error reaches generateTTS's catch
\* and is alerted.
addToHistoryRethrows(shown, error) ==
  Append(shown, AlertErrorPrefix \o InvokeErrorPrefix \o error)

\* addToHistory when its add-history-item invocation rejects with `error`:
\* the alerts shown after it.  The catch logs to the console and returns.
addToHistory(shown, error) == shown

\* The promise of a generate-tts invocation whose engine wrote `run` and
\* closed with `code`.
OutcomeOf(run, code, file, window) ==
  LET st == onStderrData(run.err, [stderr |-> <<>>, sent |-> <<>>], window)
      out == onStdoutData(run.out, <<>>)
  IN  Settle(Pending, onClose(code, out, st.stderr, file))

\* The texts typed into #tts-text.
TextValues == {<<" ">>, SampleText}

\* The models selected in the settings view.
ModelChoices == {CosyVoiceId, KokoroId}

\* Most generateTTS invocations in one behaviour.
MaxGenerations == 2

\* a path typed into #custom-model-path
CustomModelPath ==
  <<"/", "m", "/", "x">>

\* a file the select-voice-sample dialog returns
CustomVoiceFile ==
  <<"/", "h", "o", "m", "e", "/", "m", "e", "/", "v", ".", "w", "a", "v">>

\* The consent checkboxes: #terms-agree, #voice-rights-agree and
\* #no-illegal-agree.
ConsentBoxes == {"terms-agree", "voice-rights-agree", "no-illegal-agree"}

\* The navigation items (data-view) and, by the same names, the views
\* (#tts-view, #history-view, #settings-view).
NavItems == {"tts", "history", "settings"}

\* The page as it is loaded, with the fields the constructor sets: no
\* consent box checked, #consent-continue disabled, the audio player and the
\* reference text of a custom voice hidden, no language option disabled, the
\* tts view and its navigation item active, no voice card selected, the
\* preview button disabled, the style empty and the speed at 1.
PageLoaded ==
  [consentModalHidden |-> FALSE, mainAppHidden |-> TRUE, checked |-> {},
   continueDisabled |-> TRUE, voiceSelectorHidden |-> FALSE,
   selectedVoiceInfoHidden |-> FALSE, addCustomVoiceShown |-> TRUE,
   refContainerHidden |-> TRUE, audioPlayerHidden |-> TRUE,
   disabledLanguages |-> {}, activeNav |-> {"tts"}, activeViews |-> {"tts"},
   currentView |-> "tts", selectedCards |-> {}, previewDisabled |-> TRUE,
   speedShown |-> TRUE, styleShown |-> TRUE, style |-> FormStyle,
   speed |-> FormSpeed]

\* Mutant of switchView: the target marked active, the others left as they
\* are.
switchViewAdd(d, viewName) ==
  [d EXCEPT !.activeNav = @ \cup {item \in NavItems : item = viewName},
            !.activeViews = @ \cup {view \in NavItems : view = viewName},
            !.currentView = viewName]

\* switchView(viewName): 'active' toggled on every nav item and every view
\* by whether it is the target.
switchView(d, viewName) ==
  [d EXCEPT !.activeNav = {item \in NavItems : item = viewName},
            !.activeViews = {view \in NavItems : view = viewName},
            !.currentView = viewName]

\* The preset voices the form is tried with, one for each language a preset
\* voice has; the reference texts are not read here.
FormVoices ==
  <<[id |-> VoiceKoreanFemale, name |-> VoiceSora, langCode |-> LangKo],
    [id |-> VoiceEnglishFemale, name |-> VoiceEmma, langCode |-> LangEn],
    [id |-> VoiceJapaneseFemale, name |-> VoiceYuki, langCode |-> LangJa],
    [id |-> VoiceChineseFemale, name |-> VoiceMei, langCode |-> LangZh]>>

\* The data-voice-id of the voice cards renderPresetVoices makes.
CardIds == {FormVoices[i].id : i \in 1..Len(FormVoices)}

\* Mutant of selectPresetVoice: 'selected' added to the card, not toggled on
\* all of them.
selectPresetVoiceAdd(d, voice) ==
  [d EXCEPT !.selectedCards = @ \cup {voice.id},
            !.previewDisabled = FALSE,
            !.refContainerHidden = TRUE]

\* selectPresetVoice(voice), the page: 'selected' toggled on every card by
\* whether it is the voice's, the preview button enabled, the reference text
\* of a custom voice hidden.
selectPresetVoice(d, voice) ==
  [d EXCEPT !.selectedCards = {card \in CardIds : card = voice.id},
            !.previewDisabled = FALSE,
            !.refContainerHidden = TRUE]

\* selectCustomVoice(filePath), the page: no card selected, the preview
\* button enabled, the reference text shown.
selectCustomVoice(d) ==
  [d EXCEPT !.selectedCards = {},
            !.previewDisabled = FALSE,
            !.refContainerHidden = FALSE]

\* showConsentModal()
showConsentModal(d) ==
  [d EXCEPT !.consentModalHidden = FALSE, !.mainAppHidden = TRUE]

\* hideConsentModal()
hideConsentModal(d) ==
  [d EXCEPT !.consentModalHidden = TRUE, !.mainAppHidden = FALSE]

\* Mutant of afterRecordConsent: the modal hidden without awaiting the
\* record.
afterRecordConsentNoAwait(d, recorded) == hideConsentModal(d)

\* The click listener of #consent-continue after `await recordConsent(...)`:
\* hideConsentModal() runs when the invocation resolved, not when it was
\* rejected.
afterRecordConsent(d, recorded) ==
  IF recorded THEN hideConsentModal(d) ELSE d

\* Mutant of checkAllAgreed: one checked box is enough.
checkSomeAgreed(checked) == checked = {}

\* checkAllAgreed(): the disabled property of #consent-continue
checkAllAgreed(checked) == ~(\A cb \in ConsentBoxes : cb \in checked)

\* The language options updateUIBasedOnCapabilities disables.
DisabledLanguages(modelId) ==
  IF LanguagesOf(modelId) # <<>>
  THEN {LanguageOptions[i] : i \in 1..Len(LanguageOptions)}
         \ {LanguagesOf(modelId)[i] : i \in 1..Len(LanguagesOf(modelId))}
  ELSE {}

\* What updateUIBasedOnCapabilities shows and hides for the model.
CapabilityDom(d, modelId) ==
  LET caps == CapabilitiesOf(modelId)
  IN  [d EXCEPT !.voiceSelectorHidden = ~RequiresVoice(caps),
                !.selectedVoiceInfoHidden = ~RequiresVoice(caps),
                !.addCustomVoiceShown = caps.voiceCloning,
                !.speedShown = caps.speedControl,
                !.styleShown = caps.styleInstruction,
                !.disabledLanguages = DisabledLanguages(modelId)]

\* The page after init() with the store `st`: the consent modal or the main
\* app, and what the capabilities of the stored model show.
DomAfterInit(st) ==
  CapabilityDom(IF st.termsAccepted THEN hideConsentModal(PageLoaded)
                ELSE showConsentModal(PageLoaded),
                st.ttsModel)

\* The store a launch finds after the consent was recorded in an earlier
\* session.
AcceptedStore == recordConsent(DefaultStore, ConsentData, Epoch).store

(***************************************************************************)
(* Init and the actions.                                                   *)
(***************************************************************************)
\* No generate-tts invocation yet.
EngineInit ==
  /\ mainWindow = TRUE
  /\ proc = "none"
  /\ engine = [err |-> <<>>, out |-> <<>>]
  /\ errPos = 0
  /\ outPos = 0
  /\ errChunks = 0
  /\ outChunks = 0
  /\ exitCode = JUndefined
  /\ outputFile = <<>>
  /\ stdout = <<>>
  /\ stderr = <<>>
  /\ progressSent = <<>>
  /\ promise = Pending
  /\ settleCalls = <<>>
  /\ closeHandled = 0
  /\ uncaught = 0
  /\ options = JUndefined
  /\ spawnArgs = <<>>

\* The renderer after init() with the store `st`: the settings and models
\* loaded, nothing typed or selected.
RendererInit(st) ==
  /\ ttsText = <<>>
  /\ ttsLanguage = LanguageAfter(st.ttsModel, LangKo)
  /\ selectedVoice = JNull
  /\ settings = st
  /\ currentModelCapabilities = CapabilitiesOf(st.ttsModel)
  /\ generateBtnDisabled
       = updateGenerateButtonState(CapabilitiesOf(st.ttsModel), JNull, <<>>)
  /\ dom = DomAfterInit(st)
  /\ alerts = <<>>
  /\ currentAudioPath = JNull
  /\ progressShown = FALSE
  /\ progressListeners = 0
  /\ progressCleanup = FALSE
  /\ hideTimers = 0
  /\ generations = <<>>

Init ==
  /\ EngineInit
  /\ RendererInit(DefaultStore)
  /\ store = DefaultStore
  /\ clock = Epoch
  /\ reply = NoReply
  /\ adds = 0
  /\ handled = 0

\* The renderer invokes 'generate-tts': the handler computes the output file,
\* calls spawn and registers its listeners.  `run` is what the engine process
\* is going to write; `spawned` is how spawn ends: "ok", an error it reports
\* by an 'error' event of the child (ENOENT: no such executable), or an
\* error it throws (E2BIG: the text does not fit the argument list), which
\* the promise executor turns into a rejection.
GenerateTts(now, run, spawned, opts) ==
  /\ proc = "none"
  /\ options' = opts
  /\ spawnArgs' = BuildArgs(opts, store.ttsModel,
                            OutputFileOf(store.outputPath, now, store.outputFormat))
  /\ outputFile' = OutputFileOf(store.outputPath, now, store.outputFormat)
  /\ proc' = CASE spawned = "ok" -> "running"
              [] spawned \in SpawnErrorsEmitted -> "failing"
              [] OTHER -> "failed"
  /\ engine' = run
  /\ stdout' = <<>>
  /\ stderr' = <<>>
  /\ promise' = IF spawned \in SpawnErrorsThrown
                THEN [state |-> "rejected", value |-> ErrorOf(SpawnMessage(spawned))]
                ELSE Pending
  /\ UNCHANGED <<mainWindow, store, errPos, outPos, errChunks, outChunks,
                 exitCode, progressSent, settleCalls, closeHandled, uncaught>>
  /\ UNCHANGED <<historyVars, rendererVars>>

\* A 'data' event on stderr carrying the next n bytes.  The pipe hands over
\* whatever has arrived: a chunk boundary may fall anywhere, and the pipe may
\* still hold bytes after the process has exited.
StderrData(n) ==
  /\ proc \in {"running", "exited"}
  /\ errChunks < MaxChunks
  /\ n >= 1
  /\ errPos + n <= Len(engine.err)
  /\ errChunks = MaxChunks - 1 => errPos + n = Len(engine.err)
  /\ LET st == onStderrData(SubSeq(engine.err, errPos + 1, errPos + n),
                            [stderr |-> stderr, sent |-> progressSent],
                            mainWindow)
     IN  /\ stderr' = st.stderr
         /\ progressSent' = st.sent
  /\ errPos' = errPos + n
  /\ errChunks' = errChunks + 1
  /\ UNCHANGED <<mainWindow, store, proc, engine, outPos, outChunks, exitCode,
                 outputFile, stdout, promise, settleCalls, closeHandled,
                 uncaught, options, spawnArgs>>
  /\ UNCHANGED <<historyVars, rendererVars>>

\* A 'data' event on stdout carrying the next n bytes.
StdoutData(n) ==
  /\ proc \in {"running", "exited"}
  /\ outChunks < MaxChunks
  /\ n >= 1
  /\ outPos + n <= Len(engine.out)
  /\ outChunks = MaxChunks - 1 => outPos + n = Len(engine.out)
  /\ stdout' = onStdoutData(SubSeq(engine.out, outPos + 1, outPos + n), stdout)
  /\ outPos' = outPos + n
  /\ outChunks' = outChunks + 1
  /\ UNCHANGED <<mainWindow, store, proc, engine, errPos, errChunks, exitCode,
                 outputFile, stderr, progressSent, promise, settleCalls,
                 closeHandled, uncaught, options, spawnArgs>>
  /\ UNCHANGED <<historyVars, rendererVars>>

\* The child process emits `event` with `code`: the listener registered on
\* TerminalEvent runs, other events have no listener.  An 'error' event
\* without a listener is thrown by the emitter as an uncaught exception.
Emit(event, code) ==
  IF event = TerminalEvent
  THEN LET calls == onClose(code, stdout, stderr, outputFile)
       IN  /\ settleCalls' = settleCalls \o calls
           /\ promise' = Settle(promise, calls)
           /\ closeHandled' = closeHandled + 1
           /\ uncaught' = uncaught
  ELSE /\ UNCHANGED <<settleCalls, promise, closeHandled>>
       /\ uncaught' = IF event = "error" THEN uncaught + 1 ELSE uncaught

\* The process ends: 'exit' is emitted with its code; its stdio streams may
\* still be open.
Exit(code) ==
  /\ proc = "running"
  /\ proc' = "exited"
  /\ exitCode' = code
  /\ Emit("exit", code)
  /\ UNCHANGED <<mainWindow, store, engine, errPos, outPos, errChunks,
                 outChunks, outputFile, stdout, stderr, progressSent,
                 options, spawnArgs>>
  /\ UNCHANGED <<historyVars, rendererVars>>

\* 'close' is emitted once, after the process has ended and its stdio
\* streams have been drained and closed.
Close ==
  /\ proc = "exited"
  /\ errPos = Len(engine.err)
  /\ outPos = Len(engine.out)
  /\ proc' = "closed"
  /\ Emit("close", exitCode)
  /\ UNCHANGED <<mainWindow, store, engine, errPos, outPos, errChunks,
                 outChunks, exitCode, outputFile, stdout, stderr, progressSent,
                 options, spawnArgs>>
  /\ UNCHANGED <<historyVars, rendererVars>>

\* The spawn failure is reported on the next tick: the child emits 'error'.
\* The exception the emitter throws ends the child's exit handling, so that
\* neither 'exit' nor 'close' follows.
SpawnError ==
  /\ proc = "failing"
  /\ proc' = "failed"
  /\ Emit("error", JUndefined)
  /\ UNCHANGED <<mainWindow, store, engine, errPos, outPos, errChunks,
                 outChunks, exitCode, outputFile, stdout, stderr, progressSent,
                 options, spawnArgs>>
  /\ UNCHANGED <<historyVars, rendererVars>>

Next ==
  \/ \E now \in NowValues, i \in Invocations :
       GenerateTts(now, i.run, i.spawned, i.options)
  \/ \E n \in 1..Len(engine.err) : StderrData(n)
  \/ \E n \in 1..Len(engine.out) : StdoutData(n)
  \/ \E code \in ExitCodes : Exit(code)
  \/ Close
  \/ SpawnError

Spec == Init /\ [][Next]_vars

(***************************************************************************)
(* The history handlers as a state machine of their own: the store after   *)
(* any invocations of add-history-item, get-history, delete-history-item,  *)
(* clear-history, record-consent and set-setting.                          *)
(***************************************************************************)

\* Start-up with an empty history, or with the history HistoryCap - 1
\* generations have left.
InitHistory ==
  /\ EngineInit
  /\ RendererInit(DefaultStore)
  /\ reply = NoReply
  /\ handled = 0
  /\ \/ /\ store = DefaultStore
        /\ adds = 0
        /\ clock = Epoch
     \/ /\ store = [DefaultStore EXCEPT !.historyItems = Reverse(EarlierItems)]
        /\ adds = Len(EarlierItems)
        /\ clock = Epoch + Len(EarlierItems)

\* A store invocation `op` with `arg` is handled, with result `res`.
Handle(op, arg, res) ==
  /\ handled < MaxCalls
  /\ handled' = handled + 1
  /\ store' = res.store
  /\ reply' = [op |-> op, arg |-> arg, value |-> res.ret]
  /\ UNCHANGED <<engineVars, rendererVars>>

AddHistoryItem(item, now, rnd) ==
  LET res == addHistoryItem(store, item, now, rnd)
  IN  /\ Handle("add-history-item", JV("item", item), res)
      /\ clock' = now
      /\ adds' = adds + 1

GetHistory ==
  /\ Handle("get-history", JUndefined, getHistory(store))
  /\ UNCHANGED <<clock, adds>>

DeleteHistoryItem(id) ==
  /\ Handle("delete-history-item", JStr(id), deleteHistoryItem(store, id))
  /\ UNCHANGED <<clock, adds>>

ClearHistory ==
  /\ Handle("clear-history", JUndefined, clearHistory(store))
  /\ UNCHANGED <<clock, adds>>

RecordConsent(now) ==
  /\ Handle("record-consent", JV("item", ConsentData),
            recordConsent(store, ConsentData, now))
  /\ clock' = now
  /\ UNCHANGED adds

SetSetting(key, value) ==
  /\ Handle("set-setting", JStr(<<key>>), setSetting(store, key, value))
  /\ UNCHANGED <<clock, adds>>

NextHistory ==
  \/ \E now \in {clock, clock + 1}, rnd \in RandomSuffixes :
       AddHistoryItem(ItemOf(adds + 1), now, rnd)
  \/ GetHistory
  \/ \E id \in DeleteIds(store.historyItems) : DeleteHistoryItem(id)
  \/ ClearHistory
  \/ \E now \in {clock, clock + 1} : RecordConsent(now)
  \/ \E value \in BOOLEAN : SetSetting("watermarkEnabled", value)

SpecHistory == InitHistory /\ [][NextHistory]_vars

(***************************************************************************)
(* The application: the form, generateTTS and the generate-tts invocations *)
(* it makes, each with an engine process of its own.                       *)
(***************************************************************************)
\* A launch after the consent was recorded: the main app shows.
InitApp ==
  /\ EngineInit
  /\ RendererInit(AcceptedStore)
  /\ store = AcceptedStore
  /\ clock = Epoch
  /\ reply = NoReply
  /\ adds = 0
  /\ handled = 0

\* What the form actions leave alone.
formFrame ==
  <<engineVars, store, historyVars, settings, alerts, currentAudioPath,
    progressShown, progressListeners, progressCleanup, hideTimers, generations>>

\* An 'input' event of #tts-text.
Input(value) ==
  /\ ~dom.mainAppHidden
  /\ ttsText' = value
  /\ generateBtnDisabled'
       = updateGenerateButtonState(currentModelCapabilities, selectedVoice,
                                   value)
  /\ UNCHANGED <<formFrame, ttsLanguage, selectedVoice,
                 currentModelCapabilities, dom>>

\* A click on a preset voice card; the cards show while the model takes a
\* voice.
SelectPresetVoice(voice) ==
  /\ ~dom.mainAppHidden
  /\ RequiresVoice(currentModelCapabilities)
  /\ selectedVoice' = PresetVoice(voice)
  /\ dom' = selectPresetVoice(dom, voice)
  /\ ttsLanguage' = voice.langCode
  /\ generateBtnDisabled'
       = updateGenerateButtonState(currentModelCapabilities,
                                   PresetVoice(voice), ttsText)
  /\ UNCHANGED <<formFrame, ttsText, currentModelCapabilities>>

\* A click on #add-custom-voice-btn, which shows while the model clones
\* voices, and a file chosen in the dialog.
SelectCustomVoice(filePath) ==
  /\ ~dom.mainAppHidden
  /\ dom.addCustomVoiceShown
  /\ ~dom.voiceSelectorHidden
  /\ selectedVoice' = CustomVoice(filePath)
  /\ dom' = selectCustomVoice(dom)
  /\ generateBtnDisabled'
       = updateGenerateButtonState(currentModelCapabilities,
                                   CustomVoice(filePath), ttsText)
  /\ UNCHANGED <<formFrame, ttsText, ttsLanguage, currentModelCapabilities>>

\* A click on a navigation item.  The history view also reloads its list
\* with get-history, which changes nothing here.
SwitchView(viewName) ==
  /\ ~dom.mainAppHidden
  /\ dom' = switchView(dom, viewName)
  /\ UNCHANGED <<formFrame, ttsText, ttsLanguage, selectedVoice,
                 currentModelCapabilities, generateBtnDisabled>>

\* The user chooses an option of #tts-language: one that is not disabled.
ChooseLanguage(language) ==
  /\ ~dom.mainAppHidden
  /\ currentModelCapabilities.languageSelection
  /\ language \notin dom.disabledLanguages
  /\ ttsLanguage' = language
  /\ UNCHANGED <<formFrame, ttsText, selectedVoice, currentModelCapabilities,
                 generateBtnDisabled, dom>>

\* The user types into #tts-style, which shows while the model takes a
\* style instruction.
InputStyle(value) ==
  /\ ~dom.mainAppHidden
  /\ dom.styleShown
  /\ dom' = [dom EXCEPT !.style = value]
  /\ UNCHANGED <<formFrame, ttsText, ttsLanguage, selectedVoice,
                 currentModelCapabilities, generateBtnDisabled>>

\* The user moves the #tts-speed slider, which shows while the model takes a
\* speed.
InputSpeed(value) ==
  /\ ~dom.mainAppHidden
  /\ dom.speedShown
  /\ dom' = [dom EXCEPT !.speed = value]
  /\ UNCHANGED <<formFrame, ttsText, ttsLanguage, selectedVoice,
                 currentModelCapabilities, generateBtnDisabled>>

\* selectModel(modelId): set-tts-model stores the model, then the
\* capabilities, the voice, the language and the button follow.  The
\* invocation is handled after those the renderer sent before it.
SelectModel(modelId) ==
  LET caps == CapabilitiesOf(modelId)
      voice == VoiceAfter(caps, selectedVoice)
  IN  /\ ~dom.mainAppHidden
      /\ \A j \in 1..Len(generations) : generations[j].state # "sent"
      /\ store' = [store EXCEPT !.ttsModel = modelId]
      /\ settings' = [settings EXCEPT !.ttsModel = modelId]
      /\ currentModelCapabilities' = caps
      /\ selectedVoice' = voice
      /\ dom' = CapabilityDom(dom, modelId)
      /\ ttsLanguage' = LanguageAfter(modelId, ttsLanguage)
      /\ generateBtnDisabled' = updateGenerateButtonState(caps, voice, ttsText)
      /\ UNCHANGED <<engineVars, historyVars, ttsText, alerts,
                     currentAudioPath, progressShown, progressListeners,
                     progressCleanup, hideTimers, generations>>

\* generateTTS() up to its first await of the engine: the checks, then
\* showProgress and the 'generate-tts' invocation.  `via` is who called it:
\* the click listener of #generate-btn, or another caller of the method.
\* `overlaps` notes whether an earlier call had not ended when this one began.
generateTTS(via) ==
  LET alert == Validate(ttsText, selectedVoice)
      call == [via |-> via, text |-> ttsText, voice |-> selectedVoice,
               caps |-> currentModelCapabilities, language |-> ttsLanguage,
               state |-> IF alert = <<>> THEN "sent" ELSE "invalid",
               options |-> IF alert = <<>>
                           THEN RendererOptions(ttsText, ttsLanguage,
                                                selectedVoice, dom.style,
                                                dom.speed)
                           ELSE JUndefined,
               outputFile |-> <<>>, args |-> <<>>, result |-> Pending,
               item |-> JUndefined, addCalls |-> 0, saved |-> "none",
               overlaps |-> \E j \in 1..Len(generations) :
                              generations[j].state
                                \in {"sent", "running", "saving"}]
  IN  /\ Len(generations) < MaxGenerations
      /\ generations' = Append(generations, call)
      /\ IF alert = <<>>
         THEN /\ progressShown' = TRUE
              /\ progressListeners' = progressListeners + 1
              /\ progressCleanup' = TRUE
              /\ UNCHANGED alerts
         ELSE /\ alerts' = Append(alerts, alert)
              /\ UNCHANGED <<progressShown, progressListeners,
                             progressCleanup>>
      /\ UNCHANGED <<engineVars, store, historyVars, ttsText, ttsLanguage,
                     selectedVoice, settings, currentModelCapabilities,
                     generateBtnDisabled, currentAudioPath, hideTimers, dom>>

\* A click on #generate-btn: a disabled button gives no click event.
ClickGenerate ==
  /\ ~generateBtnDisabled
  /\ generateTTS("click")

\* window.ecloApp.generateTTS() called by something else than the button,
\* while the button is disabled: with the button enabled the call does what
\* the click does.
CallGenerateTTS ==
  /\ generateBtnDisabled
  /\ generateTTS("call")

\* The main process handles the 'generate-tts' invocation of generation i:
\* the output file, the args, spawn.  Invocations are handled in the order
\* they were sent.
HandleGenerateTts(i, now) ==
  /\ generations[i].state = "sent"
  /\ \A j \in 1..(i - 1) : generations[j].state # "sent"
  /\ LET file == OutputFileOf(store.outputPath, now, store.outputFormat)
     IN  generations' =
           [generations EXCEPT
              ![i].state = "running",
              ![i].outputFile = file,
              ![i].args = BuildArgs(generations[i].options, store.ttsModel,
                                    file)]
  /\ clock' = now
  /\ UNCHANGED <<engineVars, store, reply, adds, handled, ttsText,
                 ttsLanguage, selectedVoice, settings,
                 currentModelCapabilities, generateBtnDisabled, alerts,
                 currentAudioPath, progressShown, progressListeners,
                 progressCleanup, hideTimers, dom>>

\* generateTTS after its await of 'generate-tts' for generation i, which
\* settled as `result`: on success the player and the history item it sends,
\* on failure the alert and, finally, hideProgress.
AfterGenerate(i, result) ==
  LET success == Succeeded(result)
  IN  /\ generations' =
           [generations EXCEPT
              ![i].state = IF success THEN "saving" ELSE "done",
              ![i].result = result,
              ![i].item = IF success
                          THEN HistoryItemOf(trim(generations[i].text),
                                             generations[i].language,
                                             selectedVoice, settings.ttsModel,
                                             result.value)
                          ELSE JUndefined,
              ![i].addCalls = IF success THEN @ + 1 ELSE @]
      /\ IF success
         THEN /\ dom' = [dom EXCEPT !.audioPlayerHidden = FALSE]
              /\ currentAudioPath' = GetProp(result.value, KOutputPath).val
              /\ UNCHANGED <<alerts, progressListeners, progressCleanup,
                             hideTimers>>
         ELSE /\ alerts' =
                   Append(alerts,
                          IF result.state = "rejected"
                          THEN AlertErrorPrefix \o InvokeErrorPrefix
                                 \o result.value.v
                          ELSE AlertFailedPrefix
                                 \o StringOf(GetProp(result.value, KError).val))
              /\ progressListeners' = IF progressCleanup THEN 0
                                      ELSE progressListeners
              /\ progressCleanup' = FALSE
              /\ hideTimers' = hideTimers + 1
              /\ UNCHANGED <<currentAudioPath, dom>>
      /\ UNCHANGED <<engineVars, store, historyVars, ttsText, ttsLanguage,
                     selectedVoice, settings, currentModelCapabilities,
                     generateBtnDisabled, progressShown>>

\* The engine of generation i writes `run` and closes with `code`: the
\* promise of its invocation settles and generateTTS goes on.
CloseGeneration(i, run, code) ==
  /\ generations[i].state = "running"
  /\ AfterGenerate(i, OutcomeOf(run, code, generations[i].outputFile,
                                mainWindow))

\* add-history-item is handled for the item of generation i, and generateTTS
\* ends with hideProgress.
AddToHistory(i, now, rnd) ==
  LET g == generations[i]
  IN  /\ g.state = "saving"
      /\ store' = addHistoryItem(store, g.item, now, rnd).store
      /\ clock' = now
      /\ generations' = [generations EXCEPT ![i].state = "done",
                                             ![i].saved = "stored"]
      /\ progressListeners' = IF progressCleanup THEN 0 ELSE progressListeners
      /\ progressCleanup' = FALSE
      /\ hideTimers' = hideTimers + 1
      /\ UNCHANGED <<engineVars, reply, adds, handled, ttsText, ttsLanguage,
                     selectedVoice, settings, currentModelCapabilities,
                     generateBtnDisabled, alerts, currentAudioPath,
                     progressShown, dom>>

\* The add-history-item invocation for generation i rejects (the store could
\* not be written): addToHistory catches it and generateTTS ends with
\* hideProgress.
AddToHistoryFails(i) ==
  /\ generations[i].state = "saving"
  /\ generations' = [generations EXCEPT ![i].state = "done",
                                         ![i].saved = "failed"]
  /\ alerts' = addToHistory(alerts, HistoryWriteError)
  /\ progressListeners' = IF progressCleanup THEN 0 ELSE progressListeners
  /\ progressCleanup' = FALSE
  /\ hideTimers' = hideTimers + 1
  /\ UNCHANGED <<engineVars, store, historyVars, ttsText, ttsLanguage,
                 selectedVoice, settings, currentModelCapabilities,
                 generateBtnDisabled, currentAudioPath, progressShown, dom>>

\* A timeout hideProgress set runs: the progress container is hidden.
HideTimeout ==
  /\ hideTimers > 0
  /\ hideTimers' = hideTimers - 1
  /\ progressShown' = FALSE
  /\ UNCHANGED <<engineVars, store, historyVars, ttsText, ttsLanguage,
                 selectedVoice, settings, currentModelCapabilities,
                 generateBtnDisabled, alerts, currentAudioPath,
                 progressListeners, progressCleanup, generations, dom>>

NextApp ==
  \/ \E value \in TextValues : Input(value)
  \/ \E i \in 1..Len(PresetVoices) : SelectPresetVoice(PresetVoices[i])
  \/ \E modelId \in ModelChoices : SelectModel(modelId)
  \/ ClickGenerate
  \/ CallGenerateTTS
  \/ \E i \in 1..Len(generations), now \in {clock, clock + 1} :
       HandleGenerateTts(i, now)
  \/ \E i \in 1..Len(generations), r \in AppRuns :
       CloseGeneration(i, r.run, r.code)
  \/ \E i \in 1..Len(generations) : AddToHistory(i, clock, SuffixA)
  \/ \E i \in 1..Len(generations) : AddToHistoryFails(i)
  \/ HideTimeout

SpecApp == InitApp /\ [][NextApp]_vars

(***************************************************************************)
(* The consent modal and the form: a launch, the consent, then text edits, *)
(* voice selections and model switches, with no generation.                *)
(***************************************************************************)
\* The stores a launch finds: that of a first launch, and one with the
\* consent recorded.
LaunchStores == {DefaultStore, AcceptedStore}

InitForm ==
  /\ EngineInit
  /\ \E st \in LaunchStores : store = st /\ RendererInit(st)
  /\ clock = Epoch
  /\ reply = NoReply
  /\ adds = 0
  /\ handled = 0

\* What the consent modal leaves alone.
consentFrame ==
  <<engineVars, reply, adds, handled, ttsText, ttsLanguage, selectedVoice,
    settings, currentModelCapabilities, generateBtnDisabled, alerts,
    currentAudioPath, progressShown, progressListeners, progressCleanup,
    hideTimers, generations>>

\* A 'change' event of a consent checkbox: the user checked or unchecked it.
ChangeConsent(cb) ==
  LET checked == IF cb \in dom.checked THEN dom.checked \ {cb}
                 ELSE dom.checked \cup {cb}
  IN  /\ ~dom.consentModalHidden
      /\ dom' = [dom EXCEPT !.checked = checked,
                            !.continueDisabled = checkAllAgreed(checked)]
      /\ UNCHANGED <<consentFrame, store, clock>>

\* A click on #consent-continue: record-consent is invoked and, once it has
\* resolved, the modal gives way to the main app.  `recorded` is FALSE when
\* the store could not be written and the invocation was rejected.
ClickContinue(now, recorded) ==
  /\ ~dom.consentModalHidden
  /\ ~dom.continueDisabled
  /\ store' = IF recorded THEN recordConsent(store, ConsentData, now).store
              ELSE store
  /\ clock' = IF recorded THEN now ELSE clock
  /\ dom' = afterRecordConsent(dom, recorded)
  /\ UNCHANGED consentFrame

\* A click on #apply-custom-model with `value` in #custom-model-path.
ApplyCustomModel(value) ==
  /\ trim(value) # <<>>
  /\ SelectModel(trim(value))

\* The models of the model list, all but 'custom'.
ListedModels == {CosyVoiceId, OuteId, KokoroId}

NextForm ==
  \/ \E cb \in ConsentBoxes : ChangeConsent(cb)
  \/ \E now \in {clock, clock + 1}, recorded \in BOOLEAN :
       ClickContinue(now, recorded)
  \/ \E value \in TextValues : Input(value)
  \/ \E i \in 1..Len(FormVoices) : SelectPresetVoice(FormVoices[i])
  \/ SelectCustomVoice(CustomVoiceFile)
  \/ \E modelId \in ListedModels : SelectModel(modelId)
  \/ \E value \in {CustomModelPath, CustomId} : ApplyCustomModel(value)
  \/ \E viewName \in NavItems : SwitchView(viewName)
  \/ \E i \in 1..Len(LanguageOptions) : ChooseLanguage(LanguageOptions[i])

SpecForm == InitForm /\ [][NextForm]_vars


(***************************************************************************)
(* The options of the invocation: the form with its style and speed        *)
(* fields, model switches, and generateTTS up to the engine's arguments.   *)
(***************************************************************************)
\* The values typed into #tts-style.
StyleValues == {<<>>, SampleInstruct}

\* The values of the #tts-speed slider.
SpeedValues == {JNum(1, 0), JNum(15, 1)}

\* The models switched between: one with style and speed, one without.
OptionModels == {CosyVoiceId, OuteId}

NextOptions ==
  \/ Input(SampleText)
  \/ SelectPresetVoice(PresetVoices[1])
  \/ \E modelId \in OptionModels : SelectModel(modelId)
  \/ \E value \in StyleValues : InputStyle(value)
  \/ \E value \in SpeedValues : InputSpeed(value)
  \/ ClickGenerate
  \/ \E i \in 1..Len(generations) : HandleGenerateTts(i, clock)

SpecOptions == InitApp /\ [][NextOptions]_vars


(***************************************************************************)
(* The claims.                                                             *)
(***************************************************************************)

\* What reading the engine's whole stdout as the JSON result gives.
StdoutResult == JSONparse(trim(toString(engine.out)))

\* The stdout carries a JSON value whose success member is exactly `flag`.
StdoutSaysSuccess(flag) ==
  /\ ~StdoutResult.threw
  /\ HasProp(StdoutResult.val, KSuccess)
  /\ GetProp(StdoutResult.val, KSuccess).val = JBool(flag)

\* The message of the Error the promise was rejected with.
FailureMessage == promise.value.v

\* C1: for a generate-tts call whose engine process was spawned and has
\* exited, exactly one terminal outcome is produced: the terminal event is
\* handled exactly once, that handling makes exactly one resolve or reject
\* call, and the promise is settled by it; until then nothing is settled.
C1_ExactlyOneOutcome ==
  /\ closeHandled <= 1
  /\ Len(settleCalls) = closeHandled
  /\ proc = "closed" <=> closeHandled = 1
  /\ proc = "closed" => promise.state \in {"fulfilled", "rejected"}
  /\ proc \in {"none", "running", "exited"} => promise = Pending

C1_Witness ==
  /\ proc = "closed"
  /\ closeHandled = 1
  /\ Len(settleCalls) = 1
  /\ promise.state = "rejected"
  /\ errChunks = 2

\* C2: when the engine's stdout, trimmed, parses as JSON with success = true,
\* the call is resolved with that value's outputPath and duration, whatever
\* the exit code (0, non-zero or null).
C2_JsonSuccessWins ==
  (proc = "closed" /\ StdoutSaysSuccess(TRUE)) =>
    /\ promise.state = "fulfilled"
    /\ GetProp(promise.value, KOutputPath).val
         = GetProp(StdoutResult.val, KOutputPath).val
    /\ GetProp(promise.value, KDuration).val
         = GetProp(StdoutResult.val, KDuration).val

C2_Witness ==
  /\ proc = "closed"
  /\ engine.out = OutSuccessFull
  /\ exitCode = JNum(1, 0)
  /\ promise.state = "fulfilled"
  /\ GetProp(promise.value, KDuration).val = JNum(32, 1)

\* C3: when the engine's stdout parses as JSON with success = false, the call
\* is rejected whatever the exit code (0 included); the message is the
\* value's error member, or 'TTS generation failed' when that member is
\* absent or the empty string.
C3_JsonFailureWins ==
  (proc = "closed" /\ StdoutSaysSuccess(FALSE)) =>
    LET error == GetProp(StdoutResult.val, KError).val
    IN  /\ promise.state = "rejected"
        /\ promise.value.k = "error"
        /\ (error.k = "str" /\ error.v # <<>>) => FailureMessage = error.v
        /\ (error.k = "undefined" \/ error = JStr(<<>>))
             => FailureMessage = GenericFailure

C3_Witness ==
  /\ proc = "closed"
  /\ engine.out = OutFailure
  /\ exitCode = JNum(0, 0)
  /\ promise.state = "rejected"

\* A second reachable case of C3: no error member, default message.
C3_WitnessDefault ==
  /\ proc = "closed"
  /\ engine.out = OutFailureNoError
  /\ exitCode = JNum(0, 0)
  /\ FailureMessage = GenericFailure

\* C4 (as claimed): when the JSON result has success = true and no outputPath
\* member, the Success outcome carries the output path computed for this
\* request.
C4_SuccessHasComputedPath ==
  (proc = "closed" /\ StdoutSaysSuccess(TRUE)
     /\ ~HasProp(StdoutResult.val, KOutputPath)) =>
    /\ promise.state = "fulfilled"
    /\ GetProp(promise.value, KOutputPath).val = JStr(outputFile)

\* The path the claims call "the output path computed for this request":
\* <outputDirectory>/eclo_<millis>.<format>.
IsComputedPath(path) ==
  \E now \in NowValues :
    path = store.outputPath \o <<"/">> \o EcloPrefix \o NatToChars(now)
             \o <<".">> \o store.outputFormat

\* C5: when the accumulated stdout is empty or does not parse as JSON and the
\* exit code is 0, the call is resolved with success, the precomputed output
\* path of this request and no duration.
C5_ExitZeroFallback ==
  (proc = "closed" /\ StdoutResult.threw /\ exitCode = JNum(0, 0)) =>
    /\ stdout = toString(engine.out)
    /\ promise.state = "fulfilled"
    /\ GetProp(promise.value, KSuccess).val = JBool(TRUE)
    /\ GetProp(promise.value, KOutputPath).val = JStr(outputFile)
    /\ IsComputedPath(outputFile)
    /\ ~HasProp(promise.value, KDuration)

C5_Witness ==
  /\ proc = "closed"
  /\ engine.out = OutGarbage
  /\ outChunks = 2
  /\ exitCode = JNum(0, 0)
  /\ promise.state = "fulfilled"
  /\ GetProp(promise.value, KOutputPath).val = JStr(outputFile)


\* The lines the engine wrote to stderr: its whole stream, split at newlines.
EmittedLines == split(toString(engine.err), "\n")

\* A line that is JSON and tags itself as a progress event.
IsProgressLine(line) ==
  /\ ~JSONparse(line).threw
  /\ HasProp(JSONparse(line).val, KType)
  /\ GetProp(JSONparse(line).val, KType).val = JStr(KProgress)

ProgressPayload(line) == GetProp(JSONparse(line).val, KData).val

\* The progress events the emitted lines call for, in emission order.
ExpectedProgress ==
  LET tagged == SelectSeq(EmittedLines, IsProgressLine)
  IN  [i \in 1..Len(tagged) |-> ProgressPayload(tagged[i])]

\* A non-blank emitted line that is not a progress event.
IsDiagnosticLine(line) == trim(line) # <<>> /\ ~IsProgressLine(line)

\* A diagnostic noise line: download/fetch status, a tokenizer notice, a
\* deprecation or user warning, or a textual progress bar (optional leading
\* white space, digits, a percent sign, a pipe).
IsNoiseLine(line) ==
  LET body == SubSeq(line, SkipWs(line, 1), Len(line))
  IN  \/ startsWith(body, Fetching)
      \/ startsWith(body, Downloading)
      \/ includes(line, Tokenizer)
      \/ includes(line, FutureWarning)
      \/ includes(line, UserWarning)
      \/ matchProgressBar(body)

IsSurvivingLine(line) == IsDiagnosticLine(line) /\ ~IsNoiseLine(line)

\* The noise-filtered stderr text: the surviving emitted lines joined by
\* newlines and trimmed, or the generic message when nothing survives.
ExpectedFailureMessage ==
  LET text == trim(join(SelectSeq(EmittedLines, IsSurvivingLine), "\n"))
  IN  IF text = <<>> THEN GenericFailure ELSE text

\* The stdout holds no result the handler can read: it is empty or is not
\* JSON.
StdoutUnparseable == StdoutResult.threw

\* C6 (as claimed), on the claim's own example: when the engine writes the
\* stderr lines 'Fetching model...', '45%|<blocks>', 'real error: disk full',
\* stdout is empty or unparseable and the exit code is not 0, the call is
\* rejected with the noise-filtered stderr text, which is exactly
\* 'real error: disk full'.
C6_FilteredStderrMessage ==
  (proc = "closed" /\ engine.err = ErrExample /\ StdoutUnparseable
     /\ exitCode # JNum(0, 0)) =>
    /\ promise.state = "rejected"
    /\ ExpectedFailureMessage = SubSeq(toString(ErrExample), 28, 48)
    /\ FailureMessage = ExpectedFailureMessage

\* s is a prefix of t.
IsPrefix(s, t) == Len(s) <= Len(t) /\ SubSeq(t, 1, Len(s)) = s

\* C7 (as claimed): however the stderr stream is cut into data chunks, the
\* progress events sent are exactly the progress-tagged JSON lines in
\* emission order: at every moment a prefix of them, and all of them once
\* the stream has been delivered.
C7_ProgressExact ==
  /\ IsPrefix(progressSent, ExpectedProgress)
  /\ proc = "closed" => progressSent = ExpectedProgress

\* C8: once the generate-tts promise has been resolved or rejected, no
\* further 'tts-progress' message is sent.
C8_NoProgressAfterOutcome ==
  [][promise.state # "pending" => progressSent' = progressSent]_vars

C8_Witness ==
  /\ promise.state # "pending"
  /\ engine.err = ErrProgress
  /\ errChunks = 2
  /\ Len(progressSent) >= 1

\* The concatenation of a sequence of strings.
RECURSIVE Concat(_)
Concat(ss) == IF ss = <<>> THEN <<>> ELSE Head(ss) \o Concat(Tail(ss))

\* The diagnostic text the emitted lines call for: every non-blank line that
\* is not a progress event, each followed by a newline.
ExpectedDiagnostics ==
  LET kept == SelectSeq(EmittedLines, IsDiagnosticLine)
  IN  Concat([i \in 1..Len(kept) |-> kept[i] \o <<"\n">>])

\* C9 (as claimed), for a stream delivered whole in one data event: every
\* non-blank stderr line that is not a progress event, valid JSON without the
\* progress tag included, has been appended with a newline to the diagnostic
\* buffer.
C9_NonProgressAppended ==
  (errChunks = 1 /\ errPos = Len(engine.err)) => stderr = ExpectedDiagnostics

\* The lines of the failure message.
FailureLines == split(FailureMessage, "\n")

\* C10 (as claimed): on every failure path no line of the failure message is
\* a diagnostic noise line.
C10_NoNoiseOnAnyPath ==
  (proc = "closed" /\ promise.state = "rejected") =>
    \A i \in 1..Len(FailureLines) : ~IsNoiseLine(FailureLines[i])

\* The handler found no readable result on stdout and built the message
\* from stderr.
MessageFromStderr ==
  /\ proc = "closed"
  /\ promise.state = "rejected"
  /\ JSONparse(trim(stdout)).threw
       \/ GetProp(JSONparse(trim(stdout)).val, KSuccess).threw

\* C10 (amended): on the failure path that builds the message from stderr
\* (no readable JSON result on stdout, exit code not 0), no line of the
\* failure message is a diagnostic noise line.
C10_NoNoiseFromStderr ==
  MessageFromStderr =>
    \A i \in 1..Len(FailureLines) : ~IsNoiseLine(FailureLines[i])

C10_Witness ==
  /\ MessageFromStderr
  /\ engine.err = ErrExample
  /\ errChunks = 1
  /\ FailureMessage = SubSeq(toString(ErrExample), 28, 48)

\* C11: when the engine process cannot be spawned, the generate call is
\* settled as a rejection carrying an error and no exception escapes: once
\* the spawn failure has been reported, the promise is rejected with an Error
\* and nothing was thrown out of an event of the main process.
C11_SpawnFailureRejected ==
  proc = "failed" =>
    /\ promise.state = "rejected"
    /\ promise.value.k = "error"
    /\ uncaught = 0

\* The invocation names the field `flag`.
HasFlag(flag) == \E i \in 1..Len(spawnArgs) : spawnArgs[i] = JStr(flag)

\* The value the invocation gives the field `flag`.
FlagValue(flag) ==
  LET i == CHOOSE j \in 1..Len(spawnArgs) : spawnArgs[j] = JStr(flag)
  IN  IF i < Len(spawnArgs) THEN spawnArgs[i + 1] ELSE JUndefined

\* A field the request left unset: undefined, null or the empty string.
IsUnset(val) == val \in {JUndefined, JNull, JStr(<<>>)}

\* An optional field is named in the invocation exactly when the request
\* sets it, and then with the request's value.
OptionalFieldPassed(flag, val) ==
  IF IsUnset(val) THEN ~HasFlag(flag)
  ELSE HasFlag(flag) /\ FlagValue(flag) = val

\* C14: in the engine invocation every optional field the request leaves
\* unset (reference audio, reference text, instruct text) is omitted, and no
\* argument is an empty value; action, text, language, model, output and
\* speed are always present, speed being 1 when the request gives none.
C14_UnsetFieldsOmitted ==
  proc # "none" =>
    /\ OptionalFieldPassed(FlagRefAudio, options.voiceSamplePath)
    /\ OptionalFieldPassed(FlagRefText, options.referenceText)
    /\ OptionalFieldPassed(FlagInstruct, options.instructText)
    /\ \A i \in 1..Len(spawnArgs) : ~IsUnset(spawnArgs[i])
    /\ HasFlag(FlagAction) /\ FlagValue(FlagAction) = JStr(Generate)
    /\ HasFlag(FlagText) /\ FlagValue(FlagText) = options.text
    /\ HasFlag(FlagLanguage) /\ FlagValue(FlagLanguage) = options.language
    /\ HasFlag(FlagModel) /\ FlagValue(FlagModel) = JStr(store.ttsModel)
    /\ HasFlag(FlagOutput) /\ FlagValue(FlagOutput) = JStr(outputFile)
    /\ HasFlag(FlagSpeed)
    /\ options.speed = JUndefined => FlagValue(FlagSpeed) = JStr(<<"1">>)
    /\ options.speed = JNum(15, 1) =>
         FlagValue(FlagSpeed) = JStr(<<"1", ".", "5">>)

C14_Witness ==
  /\ proc = "running"
  /\ options.voiceSamplePath = JUndefined
  /\ options.referenceText = JNull
  /\ options.instructText = JStr(<<>>)
  /\ options.speed = JUndefined
  /\ Len(spawnArgs) = 13

\* The list get-history returns.
History == store.historyItems

\* The generation an entry was added for: its number among the generations.
Serial(entry) == entry.duration.v[1]

\* The step handles an invocation of the handler `op`.
Handles(op) == handled' = handled + 1 /\ reply'.op = op

\* Every store invocation so far was an add-history-item.
OnlyAdds == adds = handled \/ adds = Len(EarlierItems) + handled

\* C17: the stored history never has more than 100 entries; an add at 100
\* entries puts the new entry first and drops exactly the oldest (last) one;
\* and after 101 adds and nothing else there are exactly 100 entries, those
\* of the generations 101 down to 2, the first-added one being absent.
C17_CapAndEviction ==
  /\ [](Len(History) <= HistoryCap)
  /\ [][(Handles("add-history-item") /\ Len(History) = HistoryCap) =>
          /\ Len(History') = HistoryCap
          /\ History'[1] = reply'.value.v
          /\ SubSeq(History', 2, HistoryCap)
               = SubSeq(History, 1, HistoryCap - 1)]_vars
  /\ []((OnlyAdds /\ adds = HistoryCap + 1) =>
          /\ Len(History) = HistoryCap
          /\ \A i \in 1..HistoryCap : Serial(History[i]) = adds + 1 - i)

C17_Witness ==
  /\ OnlyAdds
  /\ adds = HistoryCap + 1
  /\ Len(History) = HistoryCap
  /\ Serial(History[HistoryCap]) = 2

\* C18: the history is newest-first: the entries that survive are in the
\* reverse of the order they were added in; get-history returns that list;
\* add-history-item puts the new entry, with the id and timestamp it
\* assigned, at index 0 and returns it.
C18_NewestFirst ==
  /\ \A i \in 1..(Len(History) - 1) :
       Serial(History[i]) > Serial(History[i + 1])
  /\ reply.op = "get-history" => reply.value = JV("list", History)
  /\ reply.op = "add-history-item" =>
       /\ History # <<>>
       /\ History[1] = reply.value.v
       /\ Serial(reply.value.v) = adds
       /\ reply.value.v.timestamp = clock
       /\ \E rnd \in RandomSuffixes : reply.value.v.id = IdOf(clock, rnd)

C18_Witness ==
  /\ reply.op = "get-history"
  /\ adds = HistoryCap + 1
  /\ Len(reply.value.v) = HistoryCap - 1
  /\ Serial(reply.value.v[1]) = HistoryCap

\* C19: delete-history-item(id) returns true exactly when an entry with
\* that id was in the history before the call, and for an id no entry has
\* it returns false and leaves the history as it was.
C19_DeleteReportsExistence ==
  [][Handles("delete-history-item") =>
       LET existed == \E i \in 1..Len(History) : History[i].id = reply'.arg.v
       IN  /\ reply'.value = JBool(existed)
           /\ ~existed => History' = History]_vars

\* C20: clear-history leaves the history empty, so that get-history returns
\* the empty list, and changes nothing else in the store.
C20_ClearOnlyHistory ==
  [][Handles("clear-history") =>
       /\ store' = [store EXCEPT !.historyItems = <<>>]
       /\ getHistory(store').ret = JV("list", <<>>)]_vars

C20_Witness ==
  /\ reply.op = "clear-history"
  /\ History = <<>>
  /\ adds = HistoryCap
  /\ store.consentRecords # <<>>
  /\ store.watermarkEnabled = FALSE

\* A generation the engine was spawned for.
Spawned(g) == g.state \in {"running", "saving", "done"} /\ g.args # <<>>

\* A generation whose 'generate-tts' invocation has not settled.
InFlight(g) == g.state \in {"sent", "running"}

\* C12: every generateTTS invocation whose text is empty (after trimming)
\* ends with the validation alert 'Please enter text to convert' and no
\* 'generate-tts' invocation, so no engine process is spawned for it.
C12_EmptyTextNotSpawned ==
  \A i \in 1..Len(generations) :
    trim(generations[i].text) = <<>>
      => /\ generations[i].state = "invalid"
         /\ ~Spawned(generations[i])
         /\ generations[i].options = JUndefined
         /\ Includes(alerts, AlertEnterText)

\* C12 witness: an invocation with empty text was turned down, with the form
\* otherwise complete (a voice selected), and another one was spawned.
C12_Witness ==
  /\ \E i \in 1..Len(generations) :
       /\ trim(generations[i].text) = <<>>
       /\ generations[i].voice # JNull
       /\ generations[i].state = "invalid"
  /\ \E i \in 1..Len(generations) : Spawned(generations[i])

\* C13: a request with non-empty text and no voice passes validation when
\* the engine neither clones voices nor has preset voices, and is turned down
\* before any spawn when it does either; and every click on the enabled
\* Generate button issues a generation request.
C13_VoiceRequiredOnlyIfSupported ==
  \A i \in 1..Len(generations) :
    LET g == generations[i]
    IN  /\ (trim(g.text) # <<>> /\ g.voice = JNull)
             => IF RequiresVoice(g.caps) THEN g.state = "invalid"
                ELSE g.state # "invalid"
        /\ g.via = "click" => g.state # "invalid"

\* C15: at most one generation started from the Generate button is in flight
\* at any time, and the button is disabled while one is.
C15_OneOutstanding ==
  LET clicked == {i \in 1..Len(generations) :
                    generations[i].via = "click" /\ InFlight(generations[i])}
  IN  /\ Cardinality(clicked) <= 1
      /\ clicked # {} => generateBtnDisabled

\* C16: no two generation requests whose engines are running share an output
\* file path.
C16_ExclusiveOutputPath ==
  \A i, j \in 1..Len(generations) :
    (i # j /\ generations[i].state = "running"
           /\ generations[j].state = "running")
      => generations[i].outputFile # generations[j].outputFile

\* The active engine is one of the models of the list.
ActiveIsListed == settings.ttsModel \in ListedModels

\* C26: whenever the active engine id is not one of the built-in
\* descriptors, the capabilities in effect are the full set, all six flags
\* true, and no language option is disabled.
C26_CustomEngineUnrestricted ==
  ~ActiveIsListed =>
    /\ \A flag \in DOMAIN currentModelCapabilities :
         currentModelCapabilities[flag] = TRUE
    /\ DOMAIN currentModelCapabilities
         = {"voiceCloning", "presetVoices", "speedControl",
            "styleInstruction", "languageSelection", "referenceText"}
    /\ dom.disabledLanguages = {}

\* C26 witness: a typed model path is active after Kokoro, which disables
\* languages and drops the voice, had been.
C26_Witness ==
  /\ settings.ttsModel = CustomModelPath
  /\ store.ttsModel = CustomModelPath
  /\ selectedVoice = JNull
  /\ ttsLanguage = LangEn

\* C27: whenever the active engine has neither voiceCloning nor
\* presetVoices, the voice selector, the add-custom-voice button and the
\* reference-text input of a custom voice are hidden and no voice is
\* selected.
C27_NoVoiceControls ==
  ~RequiresVoice(CapabilitiesOf(settings.ttsModel)) =>
    /\ dom.voiceSelectorHidden
    /\ ~dom.addCustomVoiceShown
    /\ dom.refContainerHidden
    /\ selectedVoice = JNull

\* C28: the Generate button is enabled exactly when the trimmed text is not
\* empty and a voice is selected or the active engine has neither
\* voiceCloning nor presetVoices.
C28_GenerateEnabledIff ==
  LET caps == CapabilitiesOf(settings.ttsModel)
  IN  ~generateBtnDisabled
        <=> /\ trim(ttsText) # <<>>
            /\ \/ selectedVoice # JNull
               \/ (~caps.voiceCloning /\ ~caps.presetVoices)

\* C28 witness: the button enabled on text alone, for Kokoro, after a voice
\* had been selected for another engine.
C28_Witness ==
  /\ settings.ttsModel = KokoroId
  /\ ~generateBtnDisabled
  /\ selectedVoice = JNull
  /\ ~dom.refContainerHidden

\* C29: the Continue button of the consent modal is enabled exactly when
\* all three checkboxes are checked.
C29_ContinueIffAllChecked ==
  ~dom.continueDisabled <=> dom.checked = ConsentBoxes

\* C29 witness: all three boxes checked and the button enabled, the modal
\* still showing.
C29_Witness ==
  /\ ~dom.consentModalHidden
  /\ dom.checked = ConsentBoxes
  /\ ~dom.continueDisabled

\* C30: exactly one of the consent modal and the main app is shown; while
\* the store has termsAccepted false the modal is the one shown; and the
\* main app becomes visible only in a step in which record-consent has
\* appended a consent record and set termsAccepted to true.
C30_ModalUntilConsentRecorded ==
  /\ [](dom.consentModalHidden # dom.mainAppHidden)
  /\ [](~store.termsAccepted => (~dom.consentModalHidden /\ dom.mainAppHidden))
  /\ [][(dom.mainAppHidden /\ ~dom'.mainAppHidden) =>
          /\ store'.termsAccepted
          /\ store'.termsVersion = JStr(TermsVersion)
          /\ Len(store'.consentRecords) = Len(store.consentRecords) + 1]_vars

\* C30 witness: the main app shows after the consent was given in this
\* session, a failed attempt to record it having left the modal up.
C30_Witness ==
  /\ ~dom.mainAppHidden
  /\ dom.consentModalHidden
  /\ dom.checked = ConsentBoxes
  /\ Len(store.consentRecords) = 1
  /\ clock = Epoch + 1

\* The characters an id is made of, in the order of their code units.
IdChars ==
  <<"-", "0", "1", "2", "3", "4", "5", "6", "7", "8", "9",
    "a", "b", "c", "d", "e", "f", "g", "h", "i", "j", "k", "l", "m",
    "n", "o", "p", "q", "r", "s", "t", "u", "v", "w", "x", "y", "z">>

CodeOf(c) == CHOOSE i \in 1..Len(IdChars) : IdChars[i] = c

\* a < b as strings: at the first place they differ a has the smaller
\* character, or a is a proper prefix of b.
IdLess(a, b) ==
  LET n == IF Len(a) < Len(b) THEN Len(a) ELSE Len(b)
      differ == {k \in 1..n : a[k] # b[k]}
  IN  IF differ = {} THEN Len(a) < Len(b)
      ELSE LET k == CHOOSE x \in differ : \A y \in differ : x <= y
           IN  CodeOf(a[k]) < CodeOf(b[k])

\* C23: in every history state the entries have pairwise distinct ids, and
\* an entry added later (which stands before the earlier ones) has a later
\* id than one added earlier.
C23_IdsUniqueAndOrdered ==
  /\ \A i, j \in 1..Len(History) : i # j => History[i].id # History[j].id
  /\ \A i \in 1..(Len(History) - 1) :
       IdLess(History[i + 1].id, History[i].id)

\* The places of the entries delete-history-item(id) is to remove.
Removed(history, id) == {i \in 1..Len(history) : history[i].id = id}

\* C24: entries are immutable once created: add-history-item leaves the
\* entries behind the new one as they were, field for field and in their
\* order (but for the evicted last one); delete-history-item removes exactly
\* the entries whose id is the given id and leaves every other entry, with
\* all its fields, in the same relative order.
C24_EntriesImmutable ==
  [][/\ Handles("add-history-item") =>
          /\ Len(History') >= 1
          /\ Tail(History') = SubSeq(History, 1, Len(History') - 1)
     /\ Handles("delete-history-item") =>
          LET removed == Removed(History, reply'.arg.v)
          IN  /\ Len(History') = Len(History) - Cardinality(removed)
              /\ \A i \in (1..Len(History)) \ removed :
                   History'[i - Cardinality({j \in removed : j < i})]
                     = History[i]]_vars

C24_Witness ==
  /\ reply.op = "delete-history-item"
  /\ reply.value = JBool(TRUE)
  /\ adds = HistoryCap
  /\ Len(History) = HistoryCap - 1
  /\ Serial(History[1]) = HistoryCap - 1
  /\ Serial(History[Len(History)]) = 1

\* C25: history writes are applied one whole invocation at a time: each
\* add-history-item and each delete-history-item acts on the history the
\* invocation before it left, so the history is always the result of the
\* invocations taken one after the other in the order they were handled, and
\* no added entry is lost: an add makes the list one longer (up to the cap)
\* with the entry it returns in it.
C25_WritesSerialized ==
  [][/\ Handles("add-history-item") =>
          /\ History' = SubSeq(<<reply'.value.v>> \o History, 1,
                               IF Len(History) < HistoryCap
                               THEN Len(History) + 1 ELSE HistoryCap)
          /\ \E i \in 1..Len(History') : Serial(History'[i]) = adds'
          /\ \A i \in 1..Len(History) :
               i < HistoryCap =>
                 \E j \in 1..Len(History') : History'[j] = History[i]
     /\ Handles("delete-history-item") =>
          /\ \A i \in 1..Len(History') : History'[i].id # reply'.arg.v
          /\ \A i \in 1..Len(History) :
               History[i].id # reply'.arg.v =>
                 \E j \in 1..Len(History') : History'[j] = History[i]]_vars

\* Two adds handled in the same millisecond after a delete: both entries are
\* in the list.
C25_Witness ==
  /\ reply.op = "add-history-item"
  /\ handled = 3
  /\ adds = 2
  /\ Len(History) = 2
  /\ History[1].timestamp = History[2].timestamp

\* The generate-tts invocation of generation g completed with Success: it
\* resolved with success true.
CompletedWithSuccess(g) ==
  /\ g.result.state = "fulfilled"
  /\ GetProp(g.result.value, KSuccess).val = JBool(TRUE)

\* The generations whose history entry was stored.
StoredGenerations ==
  {i \in 1..Len(generations) : generations[i].saved = "stored"}

GenerationErrors ==
  {i \in 1..Len(generations) :
     \/ generations[i].state = "invalid"
     \/ generations[i].state = "done" /\ ~CompletedWithSuccess(generations[i])}

\* C22: a failing history write does not mask or roll back a successful
\* generation: when add-history-item failed after a Success outcome the
\* generation is finished with its successful result, the audio player shows,
\* currentAudioPath is the output path of a successful generation, and no
\* alert was shown for it: the alerts are those of the generations that
\* failed.
C22_WriteFailureKeepsSuccess ==
  \A i \in 1..Len(generations) :
    generations[i].saved = "failed" =>
      /\ generations[i].state = "done"
      /\ CompletedWithSuccess(generations[i])
      /\ ~dom.audioPlayerHidden
      /\ \E j \in 1..Len(generations) :
           /\ CompletedWithSuccess(generations[j])
           /\ currentAudioPath
                = GetProp(generations[j].result.value, KOutputPath).val
      /\ Len(alerts) = Cardinality(GenerationErrors)
      /\ \A k \in 1..Len(alerts) :
           SubSeq(alerts[k], 1, Len(AlertErrorPrefix)) = AlertErrorPrefix =>
             \E j \in 1..Len(generations) :
               generations[j].result.state = "rejected"

C22_Witness ==
  /\ Len(generations) = 1
  /\ generations[1].saved = "failed"
  /\ generations[1].state = "done"
  /\ alerts = <<>>
  /\ ~dom.audioPlayerHidden
  /\ History = <<>>

\* Reading the result fails: the stdout is not JSON, or it is JSON null, of
\* which no member can be read.
ReadingResultFails == StdoutResult.threw \/ StdoutResult.val = JNull

ArgAfter(args, flag) ==
  args[(CHOOSE n \in 1..(Len(args) - 1) : args[n] = flag) + 1]

\* C34: the history item of a successful generation names the voice (name
\* and id) and the engine the generation was requested with, whatever was
\* selected while it was in flight.
C34_EntryNamesRequestedVoice ==
  \A i \in 1..Len(generations) :
    LET g == generations[i]
    IN  g.item # JUndefined =>
          /\ g.item.voiceName = g.voice.v.name
          /\ g.item.voiceId = g.voice.v.id
          /\ JStr(g.item.modelId) = ArgAfter(g.args, JStr(FlagModel))

\* The generations whose engine may still report progress.
Outstanding ==
  {i \in 1..Len(generations) : generations[i].state \in {"sent", "running"}}

\* C35: while a generation is outstanding a listener is registered on
\* 'tts-progress', and when every generateTTS call has ended none is left,
\* also when calls overlap and end at different times.
C35_ListenerWhileOutstanding ==
  /\ Outstanding # {} => progressListeners >= 1
  /\ (\A i \in 1..Len(generations) :
        generations[i].state \in {"invalid", "done"}) => progressListeners = 0

\* C36: the progress container shows for the whole time a generation is
\* outstanding; the case checked is that of calls that do not overlap: the
\* delayed hide of a finished generation does not hide the progress of one
\* started after it.
C36_ProgressShownWhileOutstanding ==
  (/\ Outstanding # {}
   /\ \A i \in 1..Len(generations) : ~generations[i].overlaps) =>
    progressShown

\* C31: after any clicks on the navigation items exactly one view is
\* active, the one last clicked (tts at first), the active navigation item
\* is the matching one, and currentView names it.
C31_OneActiveView ==
  /\ [](/\ dom.currentView \in NavItems
        /\ dom.activeViews = {dom.currentView}
        /\ dom.activeNav = {dom.currentView})
  /\ [][\A viewName \in NavItems :
          (dom'.currentView = viewName /\ dom.currentView # viewName) =>
            dom'.activeViews = {viewName} /\ dom'.activeNav = {viewName}]_vars

C31_Witness ==
  /\ dom.currentView = "settings"
  /\ dom.activeViews = {"settings"}
  /\ dom.activeNav = {"settings"}
  /\ settings.ttsModel = KokoroId

\* The preset voice whose card has the id `card`, as selectedVoice holds it.
VoiceOfCard(card) ==
  PresetVoice(FormVoices[CHOOSE i \in 1..Len(FormVoices) :
                           FormVoices[i].id = card])

\* C32: selecting a preset voice makes its card the only selected one,
\* enables the preview button and sets #tts-language to the voice's
\* language code; selecting a custom voice leaves no card selected.
C32_SelectingVoice ==
  /\ [](\A card \in CardIds :
          selectedVoice = VoiceOfCard(card) =>
            dom.selectedCards = {card} /\ ~dom.previewDisabled)
  /\ []((selectedVoice # JNull /\ selectedVoice.v.type = "custom") =>
          dom.selectedCards = {} /\ ~dom.previewDisabled)
  /\ [][\A card \in CardIds :
          (selectedVoice' = VoiceOfCard(card) /\ selectedVoice' # selectedVoice)
            => ttsLanguage' = VoiceOfCard(card).v.langCode]_vars

\* Emma selected after Sora: the language was 'ko' and is 'en'.
C32_Witness ==
  /\ selectedVoice = VoiceOfCard(VoiceEnglishFemale)
  /\ dom.selectedCards = {VoiceEnglishFemale}
  /\ ttsLanguage = LangEn
  /\ settings.ttsModel = OuteId
  /\ dom.refContainerHidden

\* C38: with a built-in engine (one with a language list) the language of
\* #tts-language is one of the languages the engine supports, after any
\* model switches, preset voice selections and choices among the enabled
\* options.
C38_LanguageSupported ==
  LanguagesOf(settings.ttsModel) # <<>> =>
    Includes(LanguagesOf(settings.ttsModel), ttsLanguage)

\* Kokoro selected while the language was one it does not support.
C38_Witness ==
  /\ settings.ttsModel = KokoroId
  /\ ttsLanguage = LangEn
  /\ dom.disabledLanguages = {LangKo, LangZh}
  /\ dom.selectedCards = {VoiceChineseFemale}

\* C39: a preset card carries the 'selected' mark only while selectedVoice
\* is that voice, and the preview button is enabled only while a voice is
\* selected.
C39_MarkAgreesWithVoice ==
  /\ \A card \in dom.selectedCards : selectedVoice = VoiceOfCard(card)
  /\ ~dom.previewDisabled => selectedVoice # JNull

\* The capabilities of the engine an invocation with `args` runs.
EngineCapabilities(args) == CapabilitiesOf(ArgAfter(args, JStr(FlagModel)).v)

\* C37: the engine invocation carries only options its engine supports:
\* no instruct text for an engine without styleInstruction, and the speed 1
\* for an engine without speedControl, after any form edits and model
\* switches.
C37_OnlySupportedOptions ==
  \A i \in 1..Len(generations) :
    LET args == generations[i].args
    IN  args # <<>> =>
          /\ ~EngineCapabilities(args).styleInstruction =>
               \A n \in 1..Len(args) : args[n] # JStr(FlagInstruct)
          /\ ~EngineCapabilities(args).speedControl =>
               ArgAfter(args, JStr(FlagSpeed)) = JStr(<<"1">>)

====
